---- MODULE Spec2Model ----
(***************************************************************************)
(* Verification model of circle-die: the quadtree index                    *)
(* (src/src/core/quadtree.js), the LOD pyramid builder and the visible-    *)
(* tile selector (src/src/utils/tile-manager.js), the grid generator       *)
(* (src/unnamed/part_001) and the camera (src/unnamed/part_004).           *)
(*                                                                         *)
(* Numbers.  World coordinates are JavaScript doubles.  The model keeps    *)
(* them as integers in eighths of a world unit (Unit = 8), which makes     *)
(* every tile centre, tile edge and quadtree bound that occurs an exact    *)
(* integer; halving is written with \div and is exact wherever it is used. *)
(* Viewport edges are rationals: a rectangle carries its denominator in    *)
(* the field den, and comparisons are cross-multiplied.                    *)
(***************************************************************************)
EXTENDS Integers, Sequences, FiniteSets, TLC

VARIABLES
    quadTree,      \* QuadTree: [width, height, maxDepth, maxItems, nodes]
    inserted,      \* history: the items handed to QuadTree.insert, in order
    circleGrid,    \* CircleGrid: [radius, blockSize, badDataRate, blocks]
    camera,        \* Camera: [canvas, position, zoom, minZoom, maxZoom]
    tilesByLevel,  \* TileManager.tilesByLevel, level k at index k + 1
    needsRebuild,  \* TileManager.needsRebuild
    query,         \* the call this step made, with its arguments ("none" when
                   \* the step was not a query)
    frame,         \* the array that call returned
    calls,         \* history: the number of camera calls counted so far
    app            \* CircleRenderer: its renderer, its frame loop and the
                   \* WebGL context of its canvas ("none" outside the
                   \* application)

vars == <<quadTree, inserted, circleGrid, camera, tilesByLevel, needsRebuild, query, frame, calls, app>>

\* One world unit in model units (eighths).
Unit == 2 * 2 * 2

Abs(n) == IF n < 0 THEN -n ELSE n

\* Math.floor(a / b) for b > 0 (TLA+ \div rounds toward minus infinity).
Floor(a, b) == a \div b

SeqToSet(s) == {s[i] : i \in 1..Len(s)}

\* The array holding the elements of s, in order.
ArrayOf(s) == SelectSeq(s, LAMBDA e : TRUE)

RECURSIVE FoldRange(_, _, _, _, _)
\* The value a loop "for (const item of items) acc = Op(acc, item)" leaves in
\* acc after the items lo..hi.  The range is halved, and the first half is
\* evaluated before the second is begun.
FoldRange(Op(_, _), acc, items, lo, hi) ==
    CASE lo > hi -> acc
      [] lo = hi -> Op(acc, items[lo])
      [] lo < hi ->
            CHOOSE after \in {FoldRange(Op, half, items, ((lo + hi) \div 2) + 1, hi) :
                                half \in {FoldRange(Op, acc, items, lo, (lo + hi) \div 2)}} : TRUE

\* The loop over all the items.
FoldLeft(Op(_, _), acc, items) == FoldRange(Op, acc, items, 1, Len(items))

(***************************************************************************)
(* QuadTreeNode.  A tree is a function from node paths (sequences of child *)
(* indices 1..4, the root is << >>) to node records                        *)
(* [bounds, depth, items, children]; children is TRUE when the four child  *)
(* nodes exist, and they are the paths Append(p, 1..4).                    *)
(***************************************************************************)

NewNode(x, y, width, height, depth) ==
    [bounds |-> [x |-> x, y |-> y, width |-> width, height |-> height],
     depth |-> depth, items |-> << >>, children |-> FALSE]

\* A variant of contains with closed upper edges.
containsClosed(bounds, x, y) ==
    /\ 2 * x >= 2 * bounds.x - bounds.width
    /\ 2 * x <= 2 * bounds.x + bounds.width
    /\ 2 * y >= 2 * bounds.y - bounds.height
    /\ 2 * y <= 2 * bounds.y + bounds.height

\* contains(x, y): half-open on both axes.
contains(bounds, x, y) ==
    /\ 2 * x >= 2 * bounds.x - bounds.width
    /\ 2 * x < 2 * bounds.x + bounds.width
    /\ 2 * y >= 2 * bounds.y - bounds.height
    /\ 2 * y < 2 * bounds.y + bounds.height

\* A rectangle {x, y, width, height} whose four fields are numerators over
\* the common denominator den.
Rect(x, y, width, height, den) ==
    [x |-> x, y |-> y, width |-> width, height |-> height, den |-> den]

\* intersects(rect): the node's bounds against the rectangle, edges closed.
intersects(bounds, rect) ==
    LET left == (2 * bounds.x - bounds.width) * rect.den
        right == (2 * bounds.x + bounds.width) * rect.den
        top == (2 * bounds.y + bounds.height) * rect.den
        bottom == (2 * bounds.y - bounds.height) * rect.den
        rectLeft == 2 * rect.x - rect.width
        rectRight == 2 * rect.x + rect.width
        rectTop == 2 * rect.y + rect.height
        rectBottom == 2 * rect.y - rect.height
    IN ~(rectLeft > right \/ rectRight < left \/ rectTop < bottom \/ rectBottom > top)

\* The four children made by subdivide, in the order of the children array:
\* top-left, top-right, bottom-left, bottom-right.
ChildNode(node, i) ==
    LET x == node.bounds.x
        y == node.bounds.y
        halfWidth == node.bounds.width \div 2
        halfHeight == node.bounds.height \div 2
        nextDepth == node.depth + 1
        cx == IF i \in {1, 3} THEN x - halfWidth \div 2 ELSE x + halfWidth \div 2
        cy == IF i \in {1, 2} THEN y + halfHeight \div 2 ELSE y - halfHeight \div 2
    IN NewNode(cx, cy, halfWidth, halfHeight, nextDepth)

\* The first child (in array order) whose bounds contain the point, 0 if none.
FirstChild(nodes, p, x, y) ==
    LET hit == {i \in 1..4 : contains(nodes[Append(p, i)].bounds, x, y)}
    IN IF hit = {} THEN 0 ELSE CHOOSE i \in hit : \A j \in hit : i <= j

RECURSIVE NodeInsert(_, _, _, _)

\* insertItemIntoChildren(item): the item goes to the first child that
\* contains its centre, and to none when no child does.
insertItemIntoChildren(qt, nodes, p, item) ==
    LET c == FirstChild(nodes, p, item.x, item.y)
    IN IF c = 0 THEN nodes ELSE NodeInsert(qt, nodes, Append(p, c), item)

\* A variant of subdivide that leaves the held items in the bucket.
subdivideKeepBucket(qt, nodes, p) ==
    IF nodes[p].children THEN nodes
    ELSE LET withChildren ==
                 [nodes EXCEPT ![p].children = TRUE]
                     @@ (Append(p, 1) :> ChildNode(nodes[p], 1))
                     @@ (Append(p, 2) :> ChildNode(nodes[p], 2))
                     @@ (Append(p, 3) :> ChildNode(nodes[p], 3))
                     @@ (Append(p, 4) :> ChildNode(nodes[p], 4))
         IN FoldLeft(LAMBDA held, item : insertItemIntoChildren(qt, held, p, item),
                     withChildren, nodes[p].items)

\* subdivide(): create the children, hand every held item to
\* insertItemIntoChildren (its result is ignored), then clear the bucket.
subdivide(qt, nodes, p) ==
    IF nodes[p].children THEN nodes
    ELSE LET withChildren ==
                 [nodes EXCEPT ![p].children = TRUE]
                     @@ (Append(p, 1) :> ChildNode(nodes[p], 1))
                     @@ (Append(p, 2) :> ChildNode(nodes[p], 2))
                     @@ (Append(p, 3) :> ChildNode(nodes[p], 3))
                     @@ (Append(p, 4) :> ChildNode(nodes[p], 4))
             moved == FoldLeft(LAMBDA held, item : insertItemIntoChildren(qt, held, p, item),
                               withChildren, nodes[p].items)
         IN [moved EXCEPT ![p].items = << >>]

\* insert(item) on the node at path p.
NodeInsert(qt, nodes, p, item) ==
    LET c == IF nodes[p].children THEN FirstChild(nodes, p, item.x, item.y) ELSE 0
    IN IF c # 0
       THEN NodeInsert(qt, nodes, Append(p, c), item)
       ELSE LET pushed == [nodes EXCEPT ![p].items = Append(@, item)]
            IN IF /\ ~pushed[p].children
                  /\ Len(pushed[p].items) > qt.maxItems
                  /\ pushed[p].depth < qt.maxDepth
               THEN subdivide(qt, pushed, p)
               ELSE pushed

\* new QuadTree(width, height, maxDepth, maxItems)
NewQuadTree(width, height, maxDepth, maxItems) ==
    [width |-> width, height |-> height, maxDepth |-> maxDepth, maxItems |-> maxItems,
     nodes |-> (<< >> :> NewNode(0, 0, width, height, 0))]

\* QuadTree.insert(item)
insert(qt, item) == [qt EXCEPT !.nodes = NodeInsert(qt, qt.nodes, << >>, item)]

\* QuadTree.insertAll(items)
insertAll(qt, items) == FoldLeft(insert, qt, items)

\* itemContainsPoint(item, x, y): the item's square, half-open.
itemContainsPoint(item, x, y) ==
    /\ 2 * x >= 2 * item.x - item.size
    /\ 2 * x < 2 * item.x + item.size
    /\ 2 * y >= 2 * item.y - item.size
    /\ 2 * y < 2 * item.y + item.size

\* itemIntersectsRange(item, range): the item's square against the range,
\* edges closed.
itemIntersectsRange(item, range) ==
    LET itemLeft == (2 * item.x - item.size) * range.den
        itemRight == (2 * item.x + item.size) * range.den
        itemTop == (2 * item.y + item.size) * range.den
        itemBottom == (2 * item.y - item.size) * range.den
        rangeLeft == 2 * range.x - range.width
        rangeRight == 2 * range.x + range.width
        rangeTop == 2 * range.y + range.height
        rangeBottom == 2 * range.y - range.height
    IN ~(itemLeft > rangeRight \/ itemRight < rangeLeft
         \/ itemTop < rangeBottom \/ itemBottom > rangeTop)

RECURSIVE NodeQueryPoint(_, _, _, _)
\* queryPoint(x, y) on the node at path p.
NodeQueryPoint(nodes, p, x, y) ==
    IF ~contains(nodes[p].bounds, x, y) THEN << >>
    ELSE LET own == SelectSeq(nodes[p].items, LAMBDA item : itemContainsPoint(item, x, y))
             sub(i) == IF nodes[p].children /\ contains(nodes[Append(p, i)].bounds, x, y)
                       THEN NodeQueryPoint(nodes, Append(p, i), x, y)
                       ELSE << >>
         IN own \o sub(1) \o sub(2) \o sub(3) \o sub(4)

RECURSIVE NodeQueryRange(_, _, _)
\* queryRange(range) on the node at path p.
NodeQueryRange(nodes, p, range) ==
    IF ~intersects(nodes[p].bounds, range) THEN << >>
    ELSE LET own == SelectSeq(nodes[p].items, LAMBDA item : itemIntersectsRange(item, range))
             sub(i) == IF nodes[p].children
                       THEN NodeQueryRange(nodes, Append(p, i), range)
                       ELSE << >>
         IN own \o sub(1) \o sub(2) \o sub(3) \o sub(4)

\* QuadTree.queryPoint / QuadTree.queryRange
queryPoint(qt, x, y) == NodeQueryPoint(qt.nodes, << >>, x, y)
queryRange(qt, range) == NodeQueryRange(qt.nodes, << >>, range)

\* Every item stored in some bucket of the tree, as a sequence (path order).
RECURSIVE StoredFrom(_, _)
StoredFrom(nodes, p) ==
    LET sub(i) == IF nodes[p].children THEN StoredFrom(nodes, Append(p, i)) ELSE << >>
    IN nodes[p].items \o sub(1) \o sub(2) \o sub(3) \o sub(4)
Stored(qt) == StoredFrom(qt.nodes, << >>)

(***************************************************************************)
(* The quadtree on its own: a tree built with small constructor arguments  *)
(* receives arbitrary insert calls and is then queried.                    *)
(***************************************************************************)

\* Bounds of the quadtree specification.
QTMaxDepth == 2
QTMaxItems == 1
MaxInserts == 3
\* Root side 16: bounds [-8, 8) on both axes.
QTWidth == 4 * 4
\* Item centres: inside the root, next to the dividing line x = 0, and
\* outside the root (x = 12); every item has side 4.
QTItemXs == {-6, -1, 1, 12}
QTItemYs == {-1, 1}
QTInsideXs == {x \in QTItemXs : 2 * Abs(x) < QTWidth}
QTItemSize == 2 * 2
QTRanges ==
    {Rect(-5, 0, 8, 8, 1), Rect(2, 0, 8, 8, 1), Rect(13, 0, 8, 8, 1), Rect(2, 0, 3, 8, 1)}
QTPoints == {<<0, 1>>, <<-1, 1>>, <<1, -1>>, <<-6, -1>>, <<12, 1>>}

NoQuery == [kind |-> "none"]
NoApp == [phase |-> "none"]
NoGrid == [radius |-> 0, blockSize |-> 0, badDataRate |-> 0, blocks |-> << >>]
NoCamera ==
    [canvas |-> [width |-> 0, height |-> 0], position |-> [x |-> 0, y |-> 0],
     zoom |-> 0, minZoom |-> 0, maxZoom |-> 0]

InitQT ==
    /\ quadTree = NewQuadTree(QTWidth, QTWidth, QTMaxDepth, QTMaxItems)
    /\ inserted = << >>
    /\ circleGrid = NoGrid
    /\ camera = NoCamera
    /\ tilesByLevel = << >>
    /\ needsRebuild = FALSE
    /\ query = NoQuery
    /\ frame = << >>
    /\ calls = 0
    /\ app = NoApp

\* quadTree.insert(item) with a fresh item object (id is its identity) whose
\* centre is drawn from xs x QTItemYs.
QTInsertAt(xs) ==
    /\ Len(inserted) < MaxInserts
    /\ \E x \in xs, y \in QTItemYs :
          LET item == [x |-> x, y |-> y, size |-> QTItemSize, id |-> Len(inserted) + 1]
          IN /\ quadTree' = insert(quadTree, item)
             /\ inserted' = Append(inserted, item)
    /\ query' = NoQuery
    /\ frame' = << >>
    /\ UNCHANGED <<circleGrid, camera, tilesByLevel, needsRebuild, calls, app>>

\* Any item.
QTInsert == QTInsertAt(QTItemXs)

\* Only items whose centre lies inside the root bounds.
QTInsertInside == QTInsertAt(QTInsideXs)

\* quadTree.queryRange(range)
QTQueryRange ==
    /\ \E range \in QTRanges :
          /\ query' = [kind |-> "range", range |-> range]
          /\ frame' = queryRange(quadTree, range)
    /\ UNCHANGED <<quadTree, inserted, circleGrid, camera, tilesByLevel, needsRebuild, calls, app>>

\* quadTree.queryPoint(x, y)
QTQueryPoint ==
    /\ \E pt \in QTPoints :
          /\ query' = [kind |-> "point", x |-> pt[1], y |-> pt[2]]
          /\ frame' = queryPoint(quadTree, pt[1], pt[2])
    /\ UNCHANGED <<quadTree, inserted, circleGrid, camera, tilesByLevel, needsRebuild, calls, app>>

NextQT == QTInsert \/ QTQueryRange \/ QTQueryPoint

SpecQT == InitQT /\ [][NextQT]_vars

\* The same tree when every inserted centre lies inside the root.
NextQTInside == QTInsertInside \/ QTQueryRange \/ QTQueryPoint

SpecQTInside == InitQT /\ [][NextQTInside]_vars

\* This step was a query of the given kind: frame is its answer for the
\* state as it is now.
FreshQuery(kind) == query.kind = kind

\* The rectangle contains the whole bounding square of the item.
RangeContainsSquare(range, item) ==
    /\ 2 * range.x - range.width <= (2 * item.x - item.size) * range.den
    /\ 2 * range.x + range.width >= (2 * item.x + item.size) * range.den
    /\ 2 * range.y - range.height <= (2 * item.y - item.size) * range.den
    /\ 2 * range.y + range.height >= (2 * item.y + item.size) * range.den

\* C3: quadtree round trip. After any sequence of inserts, a range query
\* whose rectangle contains the whole bounding square of an inserted tile
\* returns that tile.
C3_RoundTrip ==
    FreshQuery("range") =>
        \A i \in 1..Len(inserted) :
            RangeContainsSquare(query.range, inserted[i]) => inserted[i] \in SeqToSet(frame)

\* C4: queryRange is complete against the brute-force oracle. It returns
\* every inserted tile whose bounding square intersects the rectangle.
C4_RangeComplete ==
    FreshQuery("range") =>
        \A i \in 1..Len(inserted) :
            itemIntersectsRange(inserted[i], query.range) => inserted[i] \in SeqToSet(frame)

\* C5: no item is lost. Every inserted tile is stored in exactly one bucket
\* of the tree: the stored tiles are the inserted tiles, each once.
C5_NoItemLost ==
    LET stored == Stored(quadTree)
    IN /\ Len(stored) = Len(inserted)
       /\ SeqToSet(stored) = SeqToSet(inserted)

\* C6: queryPoint is complete. It returns every inserted tile whose
\* bounding square contains the point.
C6_PointComplete ==
    FreshQuery("point") =>
        \A i \in 1..Len(inserted) :
            itemContainsPoint(inserted[i], query.x, query.y) => inserted[i] \in SeqToSet(frame)

\* Points probed by the partition check: every integer point of the root and
\* a margin around it.
ProbeCoords == (-(QTWidth \div 2) - 2)..((QTWidth \div 2) + 2)

ChildrenContaining(nodes, p, x, y) ==
    {i \in 1..4 : contains(nodes[Append(p, i)].bounds, x, y)}

\* C7: the children of a subdivided node partition it. Every point inside
\* the node's bounds is inside exactly one child, and a point on a dividing
\* line is inside the child on the higher-coordinate side of that line.
C7_ChildrenPartition ==
    \A p \in DOMAIN quadTree.nodes :
        quadTree.nodes[p].children =>
            \A x \in ProbeCoords, y \in ProbeCoords :
                LET node == quadTree.nodes[p]
                    owners == ChildrenContaining(quadTree.nodes, p, x, y)
                IN contains(node.bounds, x, y) =>
                      /\ Cardinality(owners) = 1
                      /\ \A i \in owners :
                            LET child == quadTree.nodes[Append(p, i)]
                            IN /\ x = node.bounds.x => child.bounds.x > node.bounds.x
                               /\ y = node.bounds.y => child.bounds.y > node.bounds.y

\* Witness of C7: a node has been subdivided twice over, so that a dividing
\* line of an inner node lies strictly inside the root.
C7_Witness ==
    \E p \in DOMAIN quadTree.nodes :
        /\ quadTree.nodes[p].children
        /\ quadTree.nodes[p].depth >= 1
        /\ Len(Stored(quadTree)) >= 2

\* C29: quadtree shape. After any sequence of inserts of tiles whose centres
\* lie inside the root bounds, every node has depth <= maxDepth, every node
\* that has children holds an empty bucket, and every childless node of
\* depth < maxDepth holds at most maxItems items.
C29_Shape ==
    \A p \in DOMAIN quadTree.nodes :
        LET node == quadTree.nodes[p]
        IN /\ node.depth <= quadTree.maxDepth
           /\ node.children => node.items = << >>
           /\ (~node.children /\ node.depth < quadTree.maxDepth)
                 => Len(node.items) <= quadTree.maxItems

\* Witness of C29: the tree has been subdivided down to maxDepth, where a
\* bucket holds more than maxItems items.
C29_Witness ==
    /\ \A i \in 1..Len(inserted) : contains(quadTree.nodes[<< >>].bounds, inserted[i].x, inserted[i].y)
    /\ \E p \in DOMAIN quadTree.nodes :
          /\ quadTree.nodes[p].depth = quadTree.maxDepth
          /\ Len(quadTree.nodes[p].items) > quadTree.maxItems
    /\ \E p \in DOMAIN quadTree.nodes :
          /\ quadTree.nodes[p].children
          /\ quadTree.nodes[p].depth >= 1

(***************************************************************************)
(* Arithmetic helpers.                                                     *)
(***************************************************************************)

Max(a, b) == IF a >= b THEN a ELSE b
Min(a, b) == IF a <= b THEN a ELSE b

RECURSIVE Pow2(_)
\* Math.pow(2, n) for n >= 0
Pow2(n) == IF n = 0 THEN 1 ELSE 2 * Pow2(n - 1)

\* Math.ceil(a / b) for b > 0
Ceil(a, b) == -((-a) \div b)

RECURSIVE SqrtFrom(_, _)
SqrtFrom(n, r) == IF (r + 1) * (r + 1) > n THEN r ELSE SqrtFrom(n, r + 1)
\* The integer part of Math.sqrt(n)
ISqrt(n) == SqrtFrom(n, 0)

RECURSIVE FracLeq(_, _, _, _)
\* a / b <= c / d for a, c >= 0 and b, d > 0, by continued fractions, so that
\* no product is formed.
FracLeq(a, b, c, d) ==
    CASE a \div b # c \div d -> a \div b < c \div d
      [] a \div b = c \div d /\ a % b = 0 -> TRUE
      [] a \div b = c \div d /\ a % b # 0 /\ c % d = 0 -> FALSE
      [] OTHER -> FracLeq(d, c % d, b, a % b)

\* a * b <= c * d for naturals, without forming the products.
LeqProd(a, b, c, d) ==
    IF a = 0 \/ b = 0 THEN TRUE
    ELSE IF c = 0 \/ d = 0 THEN FALSE
    ELSE FracLeq(a, c, d, b)

RECURSIVE SubsetsUpTo(_, _)
\* The subsets of S with at most k elements.
SubsetsUpTo(S, k) ==
    IF k = 0 THEN {{}}
    ELSE LET smaller == SubsetsUpTo(S, k - 1)
         IN smaller \cup {s \cup {e} : s \in smaller, e \in S}

(***************************************************************************)
(* CircleGrid (src/unnamed/part_001).  A colour channel c in [0, 1] is the *)
(* integer c * ColorOne; ColorOne = 12^5 keeps every average of at most    *)
(* four members over the five merged levels exact.  badDataRate is kept in *)
(* thousandths.  The fields distance and angle of a block are derived from *)
(* its centre and read by no modelled code; they are left out.             *)
(***************************************************************************)

ColorOne == 12 * 12 * 12 * 12 * 12
RateOne == 10 * 10 * 10

maxBlocks == 900000
InitialBadDataRate == 5

White == <<ColorOne, ColorOne, ColorOne, ColorOne>>
Red == <<ColorOne, 0, 0, ColorOne>>

\* generateColor(isBadData), and the same expression inside generate
generateColor(isBadData) == IF isBadData THEN Red ELSE White

\* new CircleGrid(radius): blockSize = max(1.0, sqrt(PI r^2 / maxBlocks)),
\* with PI taken as 355/113.
NewCircleGrid(radius) ==
    [radius |-> radius,
     blockSize |-> Max(Unit, ISqrt((Unit * Unit * 355 * radius * radius) \div (113 * maxBlocks))),
     badDataRate |-> InitialBadDataRate,
     blocks |-> << >>]

\* gridSize of generate()
GridSize(cg) == Ceil(2 * cg.radius * Unit, cg.blockSize)

\* A variant of the loops of generate() that shifts every second row by half
\* a block.
LoopCentresStaggered(cg) ==
    LET g == Max(0, GridSize(cg))
    IN [k \in 1..(g * g) |->
           [x |-> ((2 * ((k - 1) % g) - g + 1 + (((k - 1) \div g) % 2)) * cg.blockSize) \div 2,
            y |-> ((2 * ((k - 1) \div g) - g + 1) * cg.blockSize) \div 2]]

\* The centres the two loops of generate() visit (y outer, x inner), step k
\* of gridSize * gridSize at index k.  The loop variables start at
\* -gridSize / 2 and step by one, so the centre coordinate of step i is
\* (2 i - gridSize + 1) * blockSize / 2.  A gridSize of zero or less (a
\* radius of zero or less) gives no step.
LoopCentres(cg) ==
    LET g == Max(0, GridSize(cg))
    IN [k \in 1..(g * g) |->
           [x |-> ((2 * ((k - 1) % g) - g + 1) * cg.blockSize) \div 2,
            y |-> ((2 * ((k - 1) \div g) - g + 1) * cg.blockSize) \div 2]]

\* A variant of the test of generate() that keeps the bounding square of the
\* disk.
InSquare(cg, centre) ==
    Abs(centre.x) <= cg.radius * Unit /\ Abs(centre.y) <= cg.radius * Unit

\* distance <= this.radius
InDisk(cg, centre) ==
    centre.x * centre.x + centre.y * centre.y <= (cg.radius * Unit) * (cg.radius * Unit)

\* The block centres generate() visits that lie in the disk, in loop order.
BlockCentres(cg) == SelectSeq(LoopCentres(cg), LAMBDA centre : InDisk(cg, centre))

\* generate(): bad is the set of blocks (by position in the result) for which
\* Math.random() < badDataRate came out true.
generate(cg, bad) ==
    LET centres == BlockCentres(cg)
    IN [cg EXCEPT !.blocks =
           ArrayOf([k \in 1..Len(centres) |->
                       [x |-> centres[k].x, y |-> centres[k].y, size |-> cg.blockSize,
                        color |-> generateColor(k \in bad), isBadData |-> k \in bad]])]

\* The outcomes of the random draws of generate() over n blocks: none is bad
\* when the rate is 0, all are when it is 1, and any set otherwise (the
\* model keeps those whose bad blocks are among the first maxBad).
BadChoices(n, rate, maxBad) ==
    IF rate <= 0 THEN {{}}
    ELSE IF rate >= RateOne THEN {1..n}
    ELSE SUBSET (1..Min(n, maxBad))

(***************************************************************************)
(* TileManager.buildLODTiles (src/src/utils/tile-manager.js).              *)
(***************************************************************************)

lodLevels == 6
baseTileSize == Unit

\* this.baseTileSize * Math.pow(2, this.lodLevels - 1 - level)
TileSizeAt(level) == baseTileSize * Pow2(lodLevels - 1 - level)

\* Math.floor(tile.x / tileSize), Math.floor(tile.y / tileSize)
GridKey(tile, tileSize) == <<Floor(tile.x, tileSize), Floor(tile.y, tileSize)>>

\* The keys of the grid object, in the order of their creation: the key of
\* every tile that is the first of its cell.
GridKeys(tiles, tileSize) ==
    LET keyed == ArrayOf([k \in 1..Len(tiles) |->
                             [index |-> k, key |-> GridKey(tiles[k], tileSize)]])
        first == SelectSeq(keyed, LAMBDA e :
                               \A j \in 1..(e.index - 1) : keyed[j].key # e.key)
    IN ArrayOf([k \in 1..Len(first) |-> first[k].key])

\* grid[key].tiles: the tiles pushed into the cell, in order.
CellTiles(tiles, tileSize, key) ==
    SelectSeq(tiles, LAMBDA tile : GridKey(tile, tileSize) = key)

\* grid[key].totalColor[i] after the tiles of the cell are added.
TotalColor(tiles, i) == FoldLeft(LAMBDA total, tile : total + tile.color[i], 0, tiles)

\* A variant of AvgColor that divides by one less than the member count.
AvgColorOffByOne(tiles) ==
    LET n == Max(1, Len(tiles) - 1)
    IN <<TotalColor(tiles, 1) \div n, TotalColor(tiles, 2) \div n,
         TotalColor(tiles, 3) \div n, TotalColor(tiles, 4) \div n>>

\* cell.totalColor.map(c => c / cell.tiles.length)
AvgColor(tiles) ==
    LET n == Len(tiles)
    IN <<TotalColor(tiles, 1) \div n, TotalColor(tiles, 2) \div n,
         TotalColor(tiles, 3) \div n, TotalColor(tiles, 4) \div n>>

\* A variant of CellCentre that takes the cell's lower corner.
CellCorner(g, tileSize) == g * tileSize

\* (gridX + 0.5) * tileSize
CellCentre(g, tileSize) == ((2 * g + 1) * tileSize) \div 2

\* The merged tile made for one grid cell.
MergedTile(tiles, level, key) ==
    LET tileSize == TileSizeAt(level)
        members == CellTiles(tiles, tileSize, key)
    IN [x |-> CellCentre(key[1], tileSize), y |-> CellCentre(key[2], tileSize),
        size |-> tileSize, color |-> AvgColor(members), merged |-> TRUE,
        originalTiles |-> members, level |-> level]

\* A variant of MergeLevel that makes no tile for the first cell of the grid.
MergeLevelDropFirst(nextLevelTiles, level) ==
    LET keys == GridKeys(nextLevelTiles, TileSizeAt(level))
    IN ArrayOf([k \in 1..(Len(keys) - 1) |-> MergedTile(nextLevelTiles, level, keys[k + 1])])

\* One pass of the level loop: the merged tiles of a level from the tiles
\* of the next level, one for each cell of the grid.
MergeLevel(nextLevelTiles, level) ==
    LET keys == GridKeys(nextLevelTiles, TileSizeAt(level))
    IN ArrayOf([k \in 1..Len(keys) |-> MergedTile(nextLevelTiles, level, keys[k])])

\* buildLODTiles(): this.tilesByLevel.  The finest level is a copy of
\* circleGrid.blocks; the level loop runs from lodLevels - 2 down to 0 and
\* builds each level from the one after it.
buildLODTiles(cg) ==
    FoldLeft(LAMBDA levels, level : <<MergeLevel(levels[1], level)>> \o levels,
             <<cg.blocks>>,
             ArrayOf([k \in 1..(lodLevels - 1) |-> lodLevels - 1 - k]))

(***************************************************************************)
(* Camera (src/unnamed/part_004) and the matrices of MathUtils.            *)
(* Positions are in model units, zoom in tenths, smoothFactor in           *)
(* hundredths.  A matrix entry is a fraction <<n, d>>; d = 0 stands for a  *)
(* value that is not finite (<<0, 0>> for NaN).  Only the entries that     *)
(* depend on the camera are kept: m0, m5, m10, m12, m13 of the column-major *)
(* array; float32 rounding is left out.                                    *)
(***************************************************************************)

\* Call arguments: a finite number or one of NaN, Infinity, -Infinity.
Finite(n) == [kind |-> "finite", value |-> n]
NaN == [kind |-> "NaN", value |-> 0]
PlusInfinity == [kind |-> "Infinity", value |-> 0]
MinusInfinity == [kind |-> "-Infinity", value |-> 0]
isFinite(a) == a.kind = "finite"

\* Division rounding towards zero.
TruncDiv(a, b) == IF a >= 0 THEN a \div b ELSE -((-a) \div b)

EntryFinite(e) == e[2] # 0
AddEntry(p, q) ==
    IF p[2] = 0 \/ q[2] = 0 THEN <<0, 0>> ELSE <<p[1] * q[2] + q[1] * p[2], p[2] * q[2]>>
MatrixFinite(matrix) == \A name \in DOMAIN matrix : EntryFinite(matrix[name])

\* MathUtils.identity() / Camera.setIdentityMatrix()
IdentityMatrix ==
    [m0 |-> <<1, 1>>, m5 |-> <<1, 1>>, m10 |-> <<1, 1>>, m12 |-> <<0, 1>>, m13 |-> <<0, 1>>]

\* n / d < 0.0001 for n >= 0, d > 0
BelowTenThousandth(e) == e[1] <= (e[2] - 1) \div 10000

\* MathUtils.ortho(-width / 2, width / 2, -height / 2, height / 2, -1, 1)
\* without its checks: lr = -1 / width, m0 = -2 * lr, m12 = (left + right) *
\* lr, which is NaN for an infinite width.
orthoUnchecked(width, height) ==
    [m0 |-> IF width[2] = 0 THEN <<0, 1>> ELSE <<2 * width[2], width[1]>>,
     m5 |-> IF height[2] = 0 THEN <<0, 1>> ELSE <<2 * height[2], height[1]>>,
     m10 |-> <<-1, 1>>,
     m12 |-> IF width[2] = 0 THEN <<0, 0>> ELSE <<0, 1>>,
     m13 |-> IF height[2] = 0 THEN <<0, 0>> ELSE <<0, 1>>]

\* MathUtils.ortho: the identity for a non-finite parameter or a range below
\* 0.0001.
ortho(width, height) ==
    IF ~EntryFinite(width) \/ ~EntryFinite(height) THEN IdentityMatrix
    ELSE IF BelowTenThousandth(width) \/ BelowTenThousandth(height) THEN IdentityMatrix
    ELSE orthoUnchecked(width, height)

\* MathUtils.translation(tx, ty, 0), tx and ty in model units, clamped to
\* +-1000000.
translation(tx, ty) ==
    LET safe(t) == Max(-1000000 * Unit, Min(1000000 * Unit, t))
    IN [m0 |-> <<1, 1>>, m5 |-> <<1, 1>>, m10 |-> <<1, 1>>,
        m12 |-> <<safe(tx), Unit>>, m13 |-> <<safe(ty), Unit>>]

\* MathUtils.multiplyMatrix(a, b) for the matrices above: result[0] =
\* a[0] * b[0], result[12] = a[12] * b[0] + a[15] * b[12] with b[0] = 1 and
\* a[15] = 1.
multiplyUnchecked(a, b) ==
    [m0 |-> a.m0, m5 |-> a.m5, m10 |-> a.m10,
     m12 |-> AddEntry(a.m12, b.m12), m13 |-> AddEntry(a.m13, b.m13)]

\* multiplyMatrix returns the identity for a non-finite input or result.
multiplyMatrix(a, b) ==
    IF ~MatrixFinite(a) \/ ~MatrixFinite(b) \/ ~MatrixFinite(multiplyUnchecked(a, b))
    THEN IdentityMatrix
    ELSE multiplyUnchecked(a, b)

\* The canvas check of updateMatrix(): it throws for a canvas with a zero
\* side.
updateMatrixSucceeds(cam) == cam.canvas.width # 0 /\ cam.canvas.height # 0

\* aspect = canvas.width / canvas.height || 1; height = 1000 / zoom;
\* width = height * aspect
ViewWidth(cam) ==
    LET aspect == IF cam.canvas.width = 0 THEN <<1, 1>>
                  ELSE <<cam.canvas.width, cam.canvas.height>>
    IN <<10000 * aspect[1], cam.zoom * aspect[2]>>
ViewHeight(cam) == <<10000, cam.zoom>>

\* updateMatrix() with every check and the try/catch taken out: the matrix
\* is whatever the arithmetic gives.
updateMatrixUnguarded(cam) ==
    LET result == multiplyUnchecked(orthoUnchecked(ViewWidth(cam), ViewHeight(cam)),
                                    translation(-cam.position.x, -cam.position.y))
    IN [camera |-> [cam EXCEPT !.matrix = result, !.lastGoodMatrix = <<result>>],
        ok |-> TRUE]

\* updateMatrix(): the camera after the call and the value returned.
\* lastGoodMatrix is << >> for null.  A position that is not finite
\* (positionIsNaN) is replaced by initialState.position once the canvas and
\* the projection have passed their checks.
updateMatrix(cam) ==
    LET restored == IF cam.lastGoodMatrix = << >> THEN IdentityMatrix
                    ELSE cam.lastGoodMatrix[1]
        zoomed == [cam EXCEPT !.zoom = IF @ <= 0 THEN cam.minZoom ELSE @,
                              !.position = IF cam.positionIsNaN THEN [x |-> 0, y |-> 0] ELSE @,
                              !.positionIsNaN = FALSE]
        width == ViewWidth(zoomed)
        height == ViewHeight(zoomed)
        result == multiplyMatrix(ortho(width, height),
                                 translation(-zoomed.position.x, -zoomed.position.y))
    IN IF ~updateMatrixSucceeds(cam)
       THEN [camera |-> [cam EXCEPT !.matrix = restored], ok |-> FALSE]
       ELSE IF ~EntryFinite(width) \/ ~EntryFinite(height)
       THEN [camera |-> [cam EXCEPT !.zoom = zoomed.zoom, !.matrix = restored], ok |-> FALSE]
       ELSE IF ~MatrixFinite(result)
       THEN [camera |-> [zoomed EXCEPT !.matrix = restored], ok |-> FALSE]
       ELSE [camera |-> [zoomed EXCEPT !.matrix = result, !.lastGoodMatrix = <<result>>],
             ok |-> TRUE]

\* new Camera(canvas): zoom 1.0, minZoom 0.1, maxZoom 10, panLimit 10000,
\* smoothing on with smoothFactor 0.2; positionIsNaN says that the position
\* holds NaN on both axes (position.x and position.y then carry no value); the matrix is the identity until
\* updateMatrix() succeeds, and lastGoodMatrix is a copy of the matrix.
NewCamera(canvas) ==
    LET fresh == [canvas |-> canvas, position |-> [x |-> 0, y |-> 0],
                  zoom |-> 10, minZoom |-> 1, maxZoom |-> 100,
                  panLimit |-> 10000 * Unit, smoothing |-> TRUE, smoothFactor |-> 20,
                  targetPosition |-> [x |-> 0, y |-> 0], positionIsNaN |-> FALSE,
                  matrix |-> IdentityMatrix, lastGoodMatrix |-> << >>]
        updated == updateMatrix(fresh).camera
    IN [updated EXCEPT !.lastGoodMatrix = <<updated.matrix>>]

\* A variant of zoomCamera that does not clamp the new zoom to
\* [minZoom, maxZoom].
zoomCameraUnclamped(cam, delta) ==
    IF ~isFinite(delta) THEN cam
    ELSE LET boundedDelta == Max(-5, Min(5, delta.value))
             zoomed == [cam EXCEPT !.zoom = @ + boundedDelta]
             updated == updateMatrix(zoomed)
         IN IF updated.ok THEN updated.camera
            ELSE [updated.camera EXCEPT !.zoom = cam.zoom]

\* zoomCamera(delta), delta in tenths
zoomCamera(cam, delta) ==
    IF ~isFinite(delta) THEN cam
    ELSE LET boundedDelta == Max(-5, Min(5, delta.value))
             zoomed == [cam EXCEPT !.zoom = Max(cam.minZoom, Min(cam.maxZoom, @ + boundedDelta))]
             updated == updateMatrix(zoomed)
         IN IF updated.ok THEN updated.camera
            ELSE [updated.camera EXCEPT !.zoom = cam.zoom]

\* Math.log(Math.max(0.5, zoom)) in ten-thousandths, zoom in tenths, by the
\* series ln x = 2 (t + t^3 / 3 + t^5 / 5 + ...) with t = (x - 1) / (x + 1),
\* in fixed point with four decimals (LogTerms terms; the sum is within a few
\* ten-thousandths of the value).
LogTerms == 40
LogOfZoom(zoom) ==
    LET x == Max(5, zoom)
        t == TruncDiv((x - 10) * 10000, x + 10)
        tt == TruncDiv(t * t, 10000)
        add(state, k) == [power |-> TruncDiv(state.power * tt, 10000),
                          sum |-> state.sum + TruncDiv(state.power, 2 * k + 1)]
    IN 2 * FoldLeft(add, [power |-> t, sum |-> 0], ArrayOf([k \in 1..LogTerms |-> k - 1])).sum

\* deltaX * panSpeed * factor in model units, with panSpeed = 0.25 and
\* factor = Math.log(Math.max(0.5, zoom)) * 0.5 / Math.max(0.1, zoom):
\* delta * LogOfZoom / (1000 * max(1, zoom)), zoom in tenths.
PanShift(delta, cam) ==
    LET whole == TruncDiv(delta, 1000)
        rest == delta - whole * 1000
        log == LogOfZoom(cam.zoom)
    IN TruncDiv(whole * log + TruncDiv(rest * log, 1000), Max(1, cam.zoom))

\* (target - position) * smoothFactor
SmoothStep(from, to, smoothFactor) == TruncDiv((to - from) * smoothFactor, 100)

\* A variant of the limit of pan() that lets every position through.
limitNothing(cam, p) == p

\* Math.max(-panLimit, Math.min(panLimit, ...)) on both axes
limitPosition(cam, p) ==
    [x |-> Max(-cam.panLimit, Min(cam.panLimit, p.x)),
     y |-> Max(-cam.panLimit, Min(cam.panLimit, p.y))]

\* pan(deltaX, deltaY), for a camera whose position is finite
pan(cam, deltaX, deltaY) ==
    IF ~isFinite(deltaX) \/ ~isFinite(deltaY) THEN cam
    ELSE LET oldPosition == cam.position
             shiftX == PanShift(deltaX.value, cam)
             shiftY == PanShift(deltaY.value, cam)
             target == [x |-> cam.targetPosition.x - shiftX,
                        y |-> cam.targetPosition.y + shiftY]
             moved == IF cam.smoothing
                      THEN [cam EXCEPT
                               !.targetPosition = target,
                               !.position = [x |-> @.x + SmoothStep(@.x, target.x, cam.smoothFactor),
                                             y |-> @.y + SmoothStep(@.y, target.y, cam.smoothFactor)]]
                      ELSE [cam EXCEPT
                               !.position = [x |-> @.x - shiftX, y |-> @.y + shiftY]]
             limited == [moved EXCEPT !.position = limitPosition(cam, @),
                                      !.targetPosition = limitPosition(cam, @)]
             updated == updateMatrix(limited)
         IN IF updated.ok THEN updated.camera
            ELSE [updated.camera EXCEPT !.position = oldPosition,
                                        !.targetPosition = oldPosition]

\* reset(): initialState is position (0, 0) and zoom 1.0
reset(cam) ==
    updateMatrix([cam EXCEPT !.position = [x |-> 0, y |-> 0],
                             !.positionIsNaN = FALSE,
                             !.targetPosition = [x |-> 0, y |-> 0],
                             !.zoom = 10]).camera

\* setSmoothPanning(enable, factor), factor in hundredths
setSmoothPanning(cam, enable, factor) ==
    [cam EXCEPT !.smoothing = enable,
                !.smoothFactor = IF factor > 0 /\ factor <= 100 THEN factor ELSE @]

(***************************************************************************)
(* TileManager.initialize and the camera's view.                           *)
(***************************************************************************)

\* maxInitialTiles of initialize(): 300000 in the program, scaled here to
\* the model's grids so that the sampling branch is taken.
maxInitialTiles == 8

\* blocks.filter(...): the blocks whose index is not in dropped.
Without(blocks, dropped) ==
    LET kept == SelectSeq(ArrayOf([k \in 1..Len(blocks) |-> k]), LAMBDA k : k \notin dropped)
    IN ArrayOf([k \in 1..Len(kept) |-> blocks[kept[k]]])

\* The outcomes of the sampling in initialize(): nothing is dropped at or
\* below maxInitialTiles; above it each block is kept or dropped by a random
\* draw (the model keeps the outcomes that drop at most maxDropped blocks).
SampleChoices(blocks, maxDropped) ==
    IF Len(blocks) > maxInitialTiles
    THEN {Without(blocks, dropped) : dropped \in SubsetsUpTo(1..Len(blocks), maxDropped)}
    ELSE {blocks}

\* The quadtree initialize() builds: side radius * 2.5, default maxDepth 8
\* and maxItems 10.
InitialQuadTree(cg, processedBlocks) ==
    LET size == (cg.radius * Unit * 5) \div 2
    IN insertAll(NewQuadTree(size, size, 8, 10), processedBlocks)

\* The default view of getViewBounds(): left -500, right 500, top 500,
\* bottom -500.
DefaultView ==
    [left |-> -500 * Unit, right |-> 500 * Unit, top |-> 500 * Unit,
     bottom |-> -500 * Unit, den |-> 1]

\* getViewBounds(): the four edges as numerators over den.  With a valid
\* canvas height = 1000 / max(0.1, zoom) and width = height * aspect, which
\* over den = zoom * canvas.height (zoom in tenths) are 10000 * canvas.height
\* and 10000 * canvas.width; an invalid canvas gives the default view.  The
\* position is not tested: with a NaN position every edge is NaN, written
\* here as 0 over den = 0.
getViewBounds(cam) ==
    IF cam.canvas.width = 0 \/ cam.canvas.height = 0
    THEN DefaultView
    ELSE IF cam.positionIsNaN
    THEN [left |-> 0, right |-> 0, top |-> 0, bottom |-> 0, den |-> 0]
    ELSE LET den == Max(1, cam.zoom) * cam.canvas.height
             halfWidth == 5000 * Unit * cam.canvas.width
             halfHeight == 5000 * Unit * cam.canvas.height
         IN [left |-> cam.position.x * den - halfWidth,
             right |-> cam.position.x * den + halfWidth,
             top |-> cam.position.y * den + halfHeight,
             bottom |-> cam.position.y * den - halfHeight,
             den |-> den]

\* The range getVisibleTiles() hands to queryRange.
ViewRange(viewBounds) ==
    Rect((viewBounds.left + viewBounds.right) \div 2,
         (viewBounds.top + viewBounds.bottom) \div 2,
         viewBounds.right - viewBounds.left,
         viewBounds.top - viewBounds.bottom,
         viewBounds.den)

RECURSIVE LevelFrom(_, _)
\* The largest k <= top with k <= normalizedZoom^0.8 * (lodLevels - 1), i.e.
\* with (k / (lodLevels - 1))^5 <= ((zoom - minZoom) / (maxZoom - minZoom))^4.
LevelFrom(cam, k) ==
    LET n == Max(0, cam.zoom - cam.minZoom)
        d == cam.maxZoom - cam.minZoom
        m == lodLevels - 1
    IN IF k = 0 \/ LeqProd(k * k * k * k * k, d * d * d * d, n * n * n * n, m * m * m * m * m)
       THEN k
       ELSE LevelFrom(cam, k - 1)

\* A variant of calculateLODLevelFromZoom that counts the levels from the
\* finest down.
calculateLODLevelInverted(cam) == (lodLevels - 1) - LevelFrom(cam, lodLevels - 1)

\* calculateLODLevelFromZoom(zoomLevel)
calculateLODLevelFromZoom(cam) == Min(lodLevels - 1, LevelFrom(cam, lodLevels - 1))

(***************************************************************************)
(* TileManager.applyLOD and getVisibleTiles.                               *)
(***************************************************************************)

\* The distance at which Math.floor(2.5 * distanceFactor^1.5) reaches 1 and
\* 2, as millionths of viewportSize: 0.8 * (1 / 2.5)^(2/3) and
\* 0.8 * (2 / 2.5)^(2/3).
DropOneMicro == 434307
DropTwoMicro == 689419

\* micro * viewportSize / 10^6 as a numerator over den (viewportSize is a
\* multiple of 1000 in model units).
DropDistance(micro, viewportSize) == (micro * (viewportSize \div 1000)) \div 1000

\* Math.floor(lodDropoff) for a tile at squared distance d2 (model units)
\* from the view centre: distanceFactor is at most 1, so the value is 0, 1
\* or 2.  viewportSize is positive, being at least the width of the view.
LodDrop(d2, viewportSize, den) ==
    LET reaches(micro) ==
            LET t == DropDistance(micro, viewportSize)
            IN LeqProd(t, t, d2 * den, den)
    IN IF reaches(DropTwoMicro) THEN 2
       ELSE IF reaches(DropOneMicro) THEN 1
       ELSE 0

\* lodTiles.find(t => Math.floor(t.x / tileSize) === gridX && ...): the index
\* of the first tile of the level in the cell, 0 when there is none.
FindTile(tiles, tileSize, key) ==
    LET hit == {i \in 1..Len(tiles) : GridKey(tiles[i], tileSize) = key}
    IN IF hit = {} THEN 0 ELSE CHOOSE i \in hit : \A j \in hit : i <= j

\* The tiles the search loop pushes at one finer level: the two loops run
\* over every cell from the lower to the upper index, both included (x outer,
\* y inner), and push the tile found in the cell, if any.
HigherTiles(levels, level, key, tileSize) ==
    LET higherTileSize == TileSizeAt(level)
        higherLodTiles == levels[level + 1]
        xMin == Floor(key[1] * tileSize, higherTileSize)
        xMax == Floor((key[1] + 1) * tileSize, higherTileSize)
        yMin == Floor(key[2] * tileSize, higherTileSize)
        yMax == Floor((key[2] + 1) * tileSize, higherTileSize)
        ny == yMax - yMin + 1
        found == ArrayOf([k \in 1..((xMax - xMin + 1) * ny) |->
                            FindTile(higherLodTiles, higherTileSize,
                                     <<xMin + ((k - 1) \div ny), yMin + ((k - 1) % ny)>>)])
        hit == SelectSeq(found, LAMBDA i : i # 0)
    IN ArrayOf([k \in 1..Len(hit) |-> higherLodTiles[hit[k]]])

RECURSIVE SearchHigher(_, _, _, _)
\* The search from a level upwards: the tiles of the first level where any
\* is found, << >> when none is found at any level.
SearchHigher(levels, level, key, tileSize) ==
    IF level >= lodLevels THEN << >>
    ELSE LET found == HigherTiles(levels, level, key, tileSize)
         IN IF Len(found) > 0 THEN found
            ELSE SearchHigher(levels, level + 1, key, tileSize)

\* targetLevel of a candidate tile.
TargetLevel(tile, baseLevel, viewBounds) ==
    LET den == viewBounds.den
        centerX == (viewBounds.left + viewBounds.right) \div 2
        centerY == (viewBounds.top + viewBounds.bottom) \div 2
        viewportWidth == viewBounds.right - viewBounds.left
        viewportHeight == viewBounds.bottom - viewBounds.top
        viewportSize == Max(viewportWidth, viewportHeight)
        \* the view centre is the camera position, a whole number of model units
        dx == (tile.x * den - centerX) \div den
        dy == (tile.y * den - centerY) \div den
    IN Max(0, baseLevel - LodDrop(dx * dx + dy * dy, viewportSize, den))

\* this.tilesByLevel[level] is undefined: the pyramid has no such level.
NoLevel(levels, level) == level + 1 > Len(levels)

RECURSIVE SearchThrows(_, _, _, _)
\* The search from a level upwards ends in a TypeError: it comes to a level
\* the pyramid does not have (higherLodTiles.find on undefined) before any
\* tile is found.
SearchThrows(levels, level, key, tileSize) ==
    IF level >= lodLevels THEN FALSE
    ELSE IF NoLevel(levels, level) THEN TRUE
    ELSE IF Len(HigherTiles(levels, level, key, tileSize)) > 0 THEN FALSE
    ELSE SearchThrows(levels, level + 1, key, tileSize)

\* One pass of the loop of applyLOD: the candidate tile against
\* processedGrid and result as they stand.  steps keeps, for every candidate
\* in turn, what the pass did with it: "seen" (its key was processed
\* before), "found" (the tile of its cell), "higher" (tiles of a finer
\* level), "own" (the candidate itself) or "threw".
ApplyTile(levels, baseLevel, viewBounds, state, tile) ==
    LET targetLevel == TargetLevel(tile, baseLevel, viewBounds)
        tileSize == TileSizeAt(targetLevel)
        key == GridKey(tile, tileSize)
        gridKey == <<targetLevel, key[1], key[2]>>
        missing == NoLevel(levels, targetLevel)
        found == IF missing THEN 0 ELSE FindTile(levels[targetLevel + 1], tileSize, key)
        searches == ~missing /\ found = 0 /\ targetLevel < lodLevels - 1
        throws == missing \/ (searches /\ SearchThrows(levels, targetLevel + 1, key, tileSize))
        higher == IF searches /\ ~throws
                  THEN SearchHigher(levels, targetLevel + 1, key, tileSize)
                  ELSE << >>
        kind == IF found # 0 THEN "found" ELSE IF Len(higher) > 0 THEN "higher" ELSE "own"
        pushed == IF found # 0 THEN <<levels[targetLevel + 1][found]>>
                  ELSE IF Len(higher) > 0 THEN higher
                  ELSE <<tile>>
        step(what, tiles) ==
            [tile |-> tile, targetLevel |-> targetLevel, key |-> key,
             kind |-> what, pushed |-> tiles]
    IN IF state.threw THEN state
       ELSE IF gridKey \in state.processedGrid
       THEN [state EXCEPT !.steps = Append(@, step("seen", << >>))]
       ELSE IF throws
       THEN [state EXCEPT !.processedGrid = @ \cup {gridKey},
                          !.threw = TRUE,
                          !.steps = Append(@, step("threw", << >>))]
       ELSE [state EXCEPT !.processedGrid = @ \cup {gridKey},
                          !.result = @ \o pushed,
                          !.steps = Append(@, step(kind, pushed))]

\* The loop of applyLOD as it ends: processedGrid, result, the steps taken
\* and whether it ended in a TypeError.
applyLODRun(levels, cam, tiles, baseLevel) ==
    FoldLeft(LAMBDA state, tile : ApplyTile(levels, baseLevel, getViewBounds(cam), state, tile),
             [processedGrid |-> {}, result |-> << >>, steps |-> << >>, threw |-> FALSE],
             tiles)

\* applyLOD(tiles, baseLevel)
applyLOD(levels, cam, tiles, baseLevel) == applyLODRun(levels, cam, tiles, baseLevel).result

(***************************************************************************)
(* The tile manager at work: construction, then frames, camera zooms and   *)
(* grid reconfiguration in any order.                                      *)
(***************************************************************************)

\* new Camera(canvas); new CircleGrid(radius); new TileManager(circleGrid,
\* camera), whose constructor runs initialize(): generate(), the sampling,
\* the quadtree, buildLODTiles().
TMInit(radii, canvases, maxBad, maxDropped) ==
    \E radius \in radii, canvas \in canvases :
        LET cg0 == NewCircleGrid(radius)
        IN \E bad \in BadChoices(Len(BlockCentres(cg0)), cg0.badDataRate, maxBad) :
              LET cg == generate(cg0, bad)
              IN \E processedBlocks \in SampleChoices(cg.blocks, maxDropped) :
                    /\ circleGrid = cg
                    /\ inserted = processedBlocks
                    /\ quadTree = InitialQuadTree(cg, processedBlocks)
                    /\ tilesByLevel = buildLODTiles(cg)
                    /\ needsRebuild = FALSE
                    /\ camera = NewCamera(canvas)
                    /\ query = NoQuery
                    /\ frame = << >>
                    /\ calls = 0
                    /\ app = NoApp

\* The pyramid the catch branch of buildLODTiles installs when the build
\* threw before level 0 had a tile: one level holding one red tile of side 100.
FallbackLevels == << <<[x |-> 0, y |-> 0, size |-> 100 * Unit, color |-> Red]>> >>

\* tileManager.getVisibleTiles().  When the pyramid is rebuilt, outcome says
\* how buildLODTiles ended: "built", or "failed" when an exception took it
\* to its catch branch.  A TypeError in applyLOD leaves getVisibleTiles
\* without a return value: threw is set and frame is left empty.
GetVisibleTilesWhen(outcomes) ==
    \E outcome \in outcomes :
        LET viewBounds == getViewBounds(camera)
            levels == IF ~needsRebuild THEN tilesByLevel
                      ELSE IF outcome = "failed" THEN FallbackLevels
                      ELSE buildLODTiles(circleGrid)
            range == ViewRange(viewBounds)
            zoomBasedLevel == calculateLODLevelFromZoom(camera)
            visibleTiles == queryRange(quadTree, range)
            run == applyLODRun(levels, camera, visibleTiles, zoomBasedLevel)
        IN /\ tilesByLevel' = levels
           /\ needsRebuild' = FALSE
           /\ query' = [kind |-> "visible", viewBounds |-> viewBounds, range |-> range,
                        baseLevel |-> zoomBasedLevel, visibleTiles |-> visibleTiles,
                        steps |-> run.steps, threw |-> run.threw]
           /\ frame' = IF run.threw THEN << >> ELSE run.result
           /\ UNCHANGED <<quadTree, inserted, circleGrid, camera, calls, app>>

\* getVisibleTiles() with a build that completes.
GetVisibleTiles == GetVisibleTilesWhen({"built"})

\* camera.zoomCamera(delta) for finite deltas, in tenths
ZoomCameraBy(deltas) ==
    /\ \E delta \in deltas : camera' = zoomCamera(camera, Finite(delta))
    /\ query' = NoQuery
    /\ frame' = << >>
    /\ UNCHANGED <<quadTree, inserted, circleGrid, tilesByLevel, needsRebuild, calls, app>>

\* circleGrid.setBlockSize(newSize) for newSize of at least one model unit
\* (Math.max(0.1, newSize) is then newSize), with the random draws of the
\* generate() it runs.
SetBlockSizeTo(sizes, maxBad) ==
    /\ \E newSize \in sizes :
          LET cg == [circleGrid EXCEPT !.blockSize = newSize]
          IN \E bad \in BadChoices(Len(BlockCentres(cg)), cg.badDataRate, maxBad) :
                circleGrid' = generate(cg, bad)
    /\ query' = NoQuery
    /\ frame' = << >>
    /\ UNCHANGED <<quadTree, inserted, camera, tilesByLevel, needsRebuild, calls, app>>

\* circleGrid.setBadDataRate(rate), rate in thousandths
SetBadDataRateTo(rates, maxBad) ==
    /\ \E rate \in rates :
          LET cg == [circleGrid EXCEPT !.badDataRate = Max(0, Min(RateOne, rate))]
          IN \E bad \in BadChoices(Len(BlockCentres(cg)), cg.badDataRate, maxBad) :
                circleGrid' = generate(cg, bad)
    /\ query' = NoQuery
    /\ frame' = << >>
    /\ UNCHANGED <<quadTree, inserted, camera, tilesByLevel, needsRebuild, calls, app>>

\* tileManager.rebuildTiles()
RebuildTiles ==
    /\ needsRebuild' = TRUE
    /\ query' = NoQuery
    /\ frame' = << >>
    /\ UNCHANGED <<quadTree, inserted, circleGrid, camera, tilesByLevel, calls, app>>

\* Bounds and inputs of the selector specification.
MaxDropped == 1
Radii == {1, 2}
Canvases == {[width |-> 4, height |-> 3], [width |-> 1, height |-> 100]}
ZoomDeltas == {-20, 5}
BlockSizes == {2 * Unit, 4 * Unit}

\* The selector reads no colour: the grids of this specification are drawn
\* with every block good.
Init == TMInit(Radii, Canvases, 0, MaxDropped)

ZoomCamera == ZoomCameraBy(ZoomDeltas)
SetBlockSize == SetBlockSizeTo(BlockSizes, 0)

Next == GetVisibleTiles \/ ZoomCamera \/ SetBlockSize \/ RebuildTiles

Spec == Init /\ [][Next]_vars

\* The level of an emitted tile: merged tiles carry it, a leaf block is a
\* tile of the finest level.
TileLevel(tile) == IF "level" \in DOMAIN tile THEN tile.level ELSE lodLevels - 1

\* (level, floor(x / s_level), floor(y / s_level)) of an emitted tile
EmittedKey(tile) ==
    <<TileLevel(tile)>> \o GridKey(tile, TileSizeAt(TileLevel(tile)))

\* C1: selector dedup. In every frame returned by getVisibleTiles, no two
\* emitted tiles have the same level and the same cell of that level.
C1_NoDuplicateKey ==
    FreshQuery("visible") =>
        \A i, j \in 1..Len(frame) :
            i < j => EmittedKey(frame[i]) # EmittedKey(frame[j])

\* The square of the tile (centre, side), edges included, covers the point.
Covers(tile, x, y) ==
    /\ 2 * Abs(x - tile.x) <= tile.size
    /\ 2 * Abs(y - tile.y) <= tile.size

\* C2: no gaps. For every leaf block of the grid whose square intersects
\* the viewport rectangle, the frame returned by getVisibleTiles holds a
\* tile whose square covers the centre of that block.
C2_NoGaps ==
    FreshQuery("visible") =>
        \A b \in 1..Len(circleGrid.blocks) :
            LET leaf == circleGrid.blocks[b]
            IN itemIntersectsRange(leaf, query.range) =>
                  \E i \in 1..Len(frame) : Covers(frame[i], leaf.x, leaf.y)

\* The no-gaps property on the grids that were never reconfigured: the quadtree and the
\* pyramid are those of the construction.
NoGapsAsBuilt ==
    (circleGrid.blockSize = Unit /\ SeqToSet(tilesByLevel[lodLevels]) = SeqToSet(circleGrid.blocks))
        => C2_NoGaps

\* micro * viewportSize / 10^6 as DropDistance computes it, with the product
\* taken in two parts.
ScaledDistance(micro, viewportSize) ==
    LET q == viewportSize \div 1000
    IN (micro \div 1000) * q + ((micro % 1000) * q) \div 1000

\* floor(2.5 * min(1, d / (0.8 D))^1.5) for a tile at squared distance d2.
ClaimedDrop(d2, D, den) ==
    LET reaches(micro) ==
            LET t == ScaledDistance(micro, D)
            IN LeqProd(t, t, d2 * den, den)
    IN IF reaches(DropTwoMicro) THEN 2
       ELSE IF reaches(DropOneMicro) THEN 1
       ELSE 0

\* max(0, base - floor(2.5 * min(1, d / (0.8 D))^1.5)) with D the larger of
\* the viewport's width and height.
ClaimedTargetLevel(tile, baseLevel, viewBounds) ==
    LET den == viewBounds.den
        centerX == (viewBounds.left + viewBounds.right) \div 2
        centerY == (viewBounds.top + viewBounds.bottom) \div 2
        D == Max(viewBounds.right - viewBounds.left, viewBounds.top - viewBounds.bottom)
        dx == (tile.x * den - centerX) \div den
        dy == (tile.y * den - centerY) \div den
    IN Max(0, baseLevel - ClaimedDrop(dx * dx + dy * dy, D, den))

\* C11: per-candidate level choice. For every candidate of a frame the
\* selector's target level is max(0, base - floor(2.5 min(1, d/(0.8 D))^1.5))
\* with D the larger of the viewport's width and height, and so lies in
\* [max(0, base - 2), base].
C11_TargetLevel ==
    (FreshQuery("visible") /\ ~query.threw) =>
        \A i \in 1..Len(query.steps) :
            LET step == query.steps[i]
            IN /\ step.targetLevel = ClaimedTargetLevel(step.tile, query.baseLevel, query.viewBounds)
               /\ step.targetLevel >= Max(0, query.baseLevel - 2)
               /\ step.targetLevel <= query.baseLevel

\* The levels finer than the target that hold a tile whose centre lies in
\* the cell key of the target level.
FinerLevelsWithin(levels, targetLevel, key) ==
    {level \in (targetLevel + 1)..(Len(levels) - 1) :
        \E t \in 1..Len(levels[level + 1]) :
            GridKey(levels[level + 1][t], TileSizeAt(targetLevel)) = key}

\* C12: finer-level fallback. When a candidate's cell has no tile at its
\* target level, the tiles emitted for it all come from the first finer
\* level that has a tile in the sub-cells of that cell, and each of them has
\* its centre inside the cell.
C12_FinerFallback ==
    (FreshQuery("visible") /\ ~query.threw) =>
        \A i \in 1..Len(query.steps) :
            LET step == query.steps[i]
                finer == FinerLevelsWithin(tilesByLevel, step.targetLevel, step.key)
            IN step.kind = "higher" =>
                  /\ finer # {}
                  /\ \A t \in 1..Len(step.pushed) :
                        /\ \A level \in finer : TileLevel(step.pushed[t]) <= level
                        /\ TileLevel(step.pushed[t]) \in finer
                        /\ GridKey(step.pushed[t], TileSizeAt(step.targetLevel)) = step.key

\* The camera with its zoom set to z.
AtZoom(cam, z) == [cam EXCEPT !.zoom = z]

\* C13: zoom-to-level monotonicity. Over the camera's zoom range the base
\* level is non-decreasing in the zoom (from every zoom to the next one up,
\* hence between any two), 0 at minZoom and lodLevels - 1 at maxZoom; the
\* level of every frame is the level of the camera's zoom.
C13_LevelMonotone ==
    /\ \A z \in camera.minZoom..(camera.maxZoom - 1) :
          calculateLODLevelFromZoom(AtZoom(camera, z))
              <= calculateLODLevelFromZoom(AtZoom(camera, z + 1))
    /\ calculateLODLevelFromZoom(AtZoom(camera, camera.minZoom)) = 0
    /\ calculateLODLevelFromZoom(AtZoom(camera, camera.maxZoom)) = lodLevels - 1
    /\ FreshQuery("visible") => query.baseLevel = calculateLODLevelFromZoom(camera)

\* Witness of C13: a frame was selected at a base level strictly between
\* the coarsest and the finest.
C13_Witness ==
    /\ FreshQuery("visible")
    /\ query.baseLevel > 0
    /\ query.baseLevel < lodLevels - 1

(***************************************************************************)
(* The selector when a rebuild may fail: buildLODTiles ends in its catch   *)
(* branch (an exception raised while the levels are built, for instance by *)
(* a block without a colour) and leaves the one-level fallback pyramid.    *)
(***************************************************************************)

\* getVisibleTiles() with a build that completes or fails.
GetVisibleTilesMayFail == GetVisibleTilesWhen({"built", "failed"})

NextFail == GetVisibleTilesMayFail \/ ZoomCamera \/ RebuildTiles

SpecFail == Init /\ [][NextFail]_vars

\* C14: the selector never fails. Every call of getVisibleTiles returns an
\* array and throws nothing, also on the fallback pyramid of a failed build
\* and when the quadtree returns no candidates.
C14_NeverThrows == FreshQuery("visible") => ~query.threw

(***************************************************************************)
(* The pyramid: grids with bad blocks, reconfigured through setBlockSize   *)
(* and setBadDataRate, rebuilt through rebuildTiles and the next frame.    *)
(***************************************************************************)

\* Bounds and inputs of the pyramid specification.
MaxBad == 3
LODRadii == {2, 3}
LODCanvases == {[width |-> 4, height |-> 3]}
LODBlockSizes == {Unit, 2 * Unit}
Rates == {0, InitialBadDataRate, RateOne, 2 * RateOne}

\* The grids are constructed with every block good (the likeliest outcome of
\* the draws at the initial rate); bad blocks come in when a grid is
\* regenerated.
InitLOD == TMInit(LODRadii, LODCanvases, 0, 0)

SetBlockSizeLOD == SetBlockSizeTo(LODBlockSizes, MaxBad)
SetBadDataRate == SetBadDataRateTo(Rates, MaxBad)

NextLOD == GetVisibleTiles \/ SetBlockSizeLOD \/ SetBadDataRate \/ RebuildTiles

SpecLOD == InitLOD /\ [][NextLOD]_vars

\* The levels below the finest, as indices into tilesByLevel.
MergedLevels == 0..(lodLevels - 2)

\* The member counts of the merged tiles, added up.
SumMembers(tiles) == FoldLeft(LAMBDA sum, tile : sum + Len(tile.originalTiles), 0, tiles)

\* C8: pyramid conservation. For every level k below the finest, the member
\* counts of the merged tiles of level k add up to the number of tiles of
\* level k+1, and every tile of level k+1 is a member of exactly one merged
\* tile of level k.
C8_Conservation ==
    \A k \in MergedLevels :
        LET merged == tilesByLevel[k + 1]
            next == tilesByLevel[k + 2]
        IN /\ SumMembers(merged) = Len(next)
           /\ \A i \in 1..Len(next) :
                 Cardinality({m \in 1..Len(merged) :
                                 next[i] \in SeqToSet(merged[m].originalTiles)}) = 1

\* Witness of C8: a pyramid rebuilt from a regenerated grid in which a
\* merged tile made of merged tiles has three or more members and shares its
\* level with other tiles.
C8_Witness ==
    /\ circleGrid.blockSize # Unit
    /\ tilesByLevel[lodLevels] = circleGrid.blocks
    /\ \E k \in 0..(lodLevels - 3) :
          /\ Len(tilesByLevel[k + 1]) >= 2
          /\ \E m \in 1..Len(tilesByLevel[k + 1]) :
                Len(tilesByLevel[k + 1][m].originalTiles) >= 3

\* C9: pyramid key consistency. For every level k below the finest and
\* every cell g holding a tile of level k+1, level k has exactly one merged
\* tile in g; it is the tile built from the tiles of that cell, its side is
\* s_k = s_0 * 2^(L-1-k), its centre is ((gx + 0.5) s_k, (gy + 0.5) s_k), and
\* the selector's lookup by key returns it.
C9_KeyConsistency ==
    \A k \in MergedLevels :
        LET merged == tilesByLevel[k + 1]
            next == tilesByLevel[k + 2]
            side == Unit * Pow2(lodLevels - 1 - k)
        IN \A g \in {GridKey(next[i], side) : i \in 1..Len(next)} :
              LET made == {m \in 1..Len(merged) : GridKey(merged[m], side) = g}
              IN /\ Cardinality(made) = 1
                 /\ \A m \in made :
                       /\ merged[m].size = side
                       /\ 2 * merged[m].x = (2 * g[1] + 1) * side
                       /\ 2 * merged[m].y = (2 * g[2] + 1) * side
                       /\ SeqToSet(merged[m].originalTiles) =
                              {next[i] : i \in {j \in 1..Len(next) : GridKey(next[j], side) = g}}
                       /\ FindTile(merged, side, g) = m

\* Witness of C9: a level holds several merged tiles, one of them in a cell
\* of negative index, built from blocks whose centres lie on cell edges
\* (block size 2 at radius 3).
C9_Witness ==
    /\ circleGrid.blockSize = 2 * Unit
    /\ circleGrid.radius = 3
    /\ tilesByLevel[lodLevels] = circleGrid.blocks
    /\ \E k \in MergedLevels :
          /\ Len(tilesByLevel[k + 1]) >= 2
          /\ \E m \in 1..Len(tilesByLevel[k + 1]) :
                /\ tilesByLevel[k + 1][m].x < 0
                /\ tilesByLevel[k + 1][m].y < 0
                /\ Len(tilesByLevel[k + 1][m].originalTiles) >= 1

\* The values of one channel over the members of a merged tile.
MemberChannel(tile, i) ==
    {tile.originalTiles[j].color[i] : j \in 1..Len(tile.originalTiles)}

C23_PyramidFresh ==
    FreshQuery("visible")
        => /\ tilesByLevel[lodLevels] = circleGrid.blocks
           /\ \A i \in 1..Len(query.visibleTiles) :
                 \E j \in 1..Len(circleGrid.blocks) :
                    circleGrid.blocks[j] = query.visibleTiles[i]

\* C28: no overdraw across levels. In every frame returned by applyLOD no
\* emitted tile has its centre inside the cell of an emitted tile of a
\* coarser level.
C28_NoOverdraw ==
    (FreshQuery("visible") /\ ~query.threw) =>
        \A i, j \in 1..Len(frame) :
            TileLevel(frame[j]) < TileLevel(frame[i])
                => GridKey(frame[i], TileSizeAt(TileLevel(frame[j])))
                      # GridKey(frame[j], TileSizeAt(TileLevel(frame[j])))

(***************************************************************************)
(* The camera on its own: the calls of the event handlers of main.js and   *)
(* the frames of CircleRenderer.animate, with no tile manager              *)
(* (this.tileManager is null, so a frame draws nothing).                   *)
(***************************************************************************)

\* Bounds and inputs of the camera specification.  The canvas takes the
\* sizes setupCanvasSize/resizeCanvas can give it, zero sides included.
MaxCalls == 5
CamCanvases ==
    {[width |-> 4, height |-> 3], [width |-> 0, height |-> 3], [width |-> 4, height |-> 0]}
PanArgs ==
    {<<Finite(100), Finite(100)>>, <<Finite(-400000), Finite(30)>>,
     <<NaN, Finite(100)>>, <<Finite(100), PlusInfinity>>}
ZoomArgs == {Finite(5), Finite(-1), Finite(-20), NaN, MinusInfinity}
SmoothArgs == {<<TRUE, 15>>, <<FALSE, 20>>}

InitCam ==
    /\ \E canvas \in CamCanvases : camera = NewCamera(canvas)
    /\ quadTree = NewQuadTree(QTWidth, QTWidth, QTMaxDepth, QTMaxItems)
    /\ inserted = << >>
    /\ circleGrid = NoGrid
    /\ tilesByLevel = << >>
    /\ needsRebuild = FALSE
    /\ query = NoQuery
    /\ frame = << >>
    /\ calls = 0
    /\ app = NoApp

\* One call on the camera: the camera after it, and the record of the call.
CameraCall(after, call) ==
    /\ calls < MaxCalls
    /\ camera' = after
    /\ calls' = calls + 1
    /\ query' = call
    /\ frame' = << >>
    /\ UNCHANGED <<quadTree, inserted, circleGrid, tilesByLevel, needsRebuild, app>>

\* camera.pan(deltaX, deltaY)
Pan ==
    \E args \in PanArgs :
        CameraCall(pan(camera, args[1], args[2]),
                   [kind |-> "pan", deltaX |-> args[1], deltaY |-> args[2], before |-> camera])

\* camera.zoomCamera(delta)
ZoomCameraCall ==
    \E delta \in ZoomArgs :
        CameraCall(zoomCamera(camera, delta),
                   [kind |-> "zoom", deltaX |-> delta, deltaY |-> delta, before |-> camera])

\* camera.reset()
Reset == CameraCall(reset(camera), [kind |-> "reset", before |-> camera])

\* camera.updateMatrix()
UpdateMatrix == CameraCall(updateMatrix(camera).camera, [kind |-> "updateMatrix", before |-> camera])

\* camera.setSmoothPanning(enable, factor)
SetSmoothPanning ==
    \E args \in SmoothArgs :
        CameraCall(setSmoothPanning(camera, args[1], args[2]),
                   [kind |-> "smooth", before |-> camera])

\* resizeCanvas(): the canvas the camera holds gets a new size.
ResizeCanvas ==
    \E canvas \in CamCanvases :
        /\ canvas # camera.canvas
        /\ CameraCall([camera EXCEPT !.canvas = canvas], [kind |-> "resize", before |-> camera])

\* One frame of animate(): nothing of the camera is written.  tick stands
\* for lastFrameTime, which every frame changes.
Frame ==
    /\ query' = [kind |-> "frame", before |-> camera,
                 tick |-> IF query.kind = "frame" THEN 1 - query.tick ELSE 0]
    /\ frame' = << >>
    /\ UNCHANGED <<quadTree, inserted, circleGrid, camera, tilesByLevel, needsRebuild, calls, app>>

NextCam ==
    Pan \/ ZoomCameraCall \/ Reset \/ UpdateMatrix \/ SetSmoothPanning \/ ResizeCanvas \/ Frame

SpecCam == InitCam /\ [][NextCam]_vars

\* C15: after construction and after any pan, zoomCamera, reset or
\* updateMatrix call, with finite or non-finite arguments and with any
\* canvas size, zero sides included, every entry of the camera matrix is
\* finite.
C15_MatrixFinite == MatrixFinite(camera.matrix)

\* Witness of C15: a pan with finite arguments ran on a canvas with a zero
\* side, after a call that had given the camera a projection matrix.
C15_Witness ==
    /\ FreshQuery("pan")
    /\ isFinite(query.deltaX) /\ isFinite(query.deltaY)
    /\ ~updateMatrixSucceeds(query.before)
    /\ camera.matrix # IdentityMatrix
    /\ MatrixFinite(camera.matrix)

\* C17: the camera position and the target position stay within
\* [-panLimit, panLimit] = [-10000, 10000] on both axes, with smoothing on
\* or off.
C17_PanBound ==
    /\ camera.panLimit = 10000 * Unit
    /\ \A p \in {camera.position, camera.targetPosition} :
          /\ Abs(p.x) <= camera.panLimit
          /\ Abs(p.y) <= camera.panLimit

\* Witness of C17: a pan asked for a target beyond the limit and the target
\* was stopped at the limit.
C17_Witness ==
    /\ FreshQuery("pan")
    /\ isFinite(query.deltaX) /\ isFinite(query.deltaY)
    /\ query.before.smoothing
    /\ updateMatrixSucceeds(query.before)
    /\ query.before.targetPosition.x - PanShift(query.deltaX.value, query.before)
          > camera.panLimit
    /\ camera.targetPosition.x = camera.panLimit

\* The shift the pan formula of the specification gives for a delta:
\* delta * 0.25 / max(0.1, zoom), in model units.
ClaimedShift(delta, cam) == TruncDiv(delta * 20, Max(1, cam.zoom))

\* C18: with smoothing off and no limit reached, pan(dx, dy) moves the
\* position by (-dx * 0.25 / max(0.1, zoom), +dy * 0.25 / max(0.1, zoom)).
C18_PanTranslation ==
    (/\ FreshQuery("pan")
     /\ isFinite(query.deltaX) /\ isFinite(query.deltaY)
     /\ ~query.before.smoothing
     /\ updateMatrixSucceeds(query.before)
     /\ Abs(query.before.position.x - ClaimedShift(query.deltaX.value, query.before))
           <= camera.panLimit
     /\ Abs(query.before.position.y + ClaimedShift(query.deltaY.value, query.before))
           <= camera.panLimit)
    => /\ camera.position.x
             = query.before.position.x - ClaimedShift(query.deltaX.value, query.before)
       /\ camera.position.y
             = query.before.position.y + ClaimedShift(query.deltaY.value, query.before)

\* animate() asks for the next frame at the end of every frame
\* (requestAnimationFrame, or setTimeout after an error), so frames never
\* stop.
SpecCamFair == SpecCam /\ WF_vars(Frame)

\* C19: with smoothing on the position converges to the target position:
\* once the pan events have stopped, the frames bring the position to the
\* target and it stays there.
C19_Convergence == <>[](camera.smoothing => camera.position = camera.targetPosition)

\* C20: a pan or zoomCamera call that is rejected, for a non-finite argument
\* or because the matrix update fails on a canvas with a zero side, leaves
\* zoom, position and target position as they were, and the matrix equal to
\* the last good matrix.
C20_RejectedUnchanged ==
    (/\ query.kind \in {"pan", "zoom"}
     /\ \/ ~isFinite(query.deltaX)
        \/ ~isFinite(query.deltaY)
        \/ ~updateMatrixSucceeds(query.before))
    => /\ camera.zoom = query.before.zoom
       /\ camera.position = query.before.position
       /\ camera.targetPosition = query.before.targetPosition
       /\ camera.matrix = query.before.lastGoodMatrix[1]

(***************************************************************************)
(* The zoom range: zoomCamera as often as the wheel turns, with resets and *)
(* a bounded number of pans in between.                                    *)
(***************************************************************************)

MaxPans == 1
ZoomSteps == {Finite(5), Finite(-7), PlusInfinity}
ZoomCanvases == {[width |-> 4, height |-> 3], [width |-> 4, height |-> 0]}
ZoomPanArgs == {<<Finite(100), Finite(100)>>, <<Finite(30), NaN>>}

InitZoom ==
    /\ \E canvas \in ZoomCanvases : camera = NewCamera(canvas)
    /\ quadTree = NewQuadTree(QTWidth, QTWidth, QTMaxDepth, QTMaxItems)
    /\ inserted = << >>
    /\ circleGrid = NoGrid
    /\ tilesByLevel = << >>
    /\ needsRebuild = FALSE
    /\ query = NoQuery
    /\ frame = << >>
    /\ calls = 0
    /\ app = NoApp

\* A call on the camera that the history does not count.
FreeCall(after, call) ==
    /\ camera' = after
    /\ query' = call
    /\ frame' = << >>
    /\ UNCHANGED <<quadTree, inserted, circleGrid, tilesByLevel, needsRebuild, calls, app>>

ZoomStep ==
    \E delta \in ZoomSteps :
        FreeCall(zoomCamera(camera, delta),
                 [kind |-> "zoom", deltaX |-> delta, deltaY |-> delta, before |-> camera])

ResetStep == FreeCall(reset(camera), [kind |-> "reset", before |-> camera])

PanStep ==
    /\ calls < MaxPans
    /\ calls' = calls + 1
    /\ \E args \in ZoomPanArgs :
          /\ camera' = pan(camera, args[1], args[2])
          /\ query' = [kind |-> "pan", deltaX |-> args[1], deltaY |-> args[2], before |-> camera]
    /\ frame' = << >>
    /\ UNCHANGED <<quadTree, inserted, circleGrid, tilesByLevel, needsRebuild, app>>

NextZoom == ZoomStep \/ ResetStep \/ PanStep

SpecZoom == InitZoom /\ [][NextZoom]_vars

\* C16: after any zoomCamera, pan or reset call the zoom lies in
\* [minZoom, maxZoom] = [0.1, 10].
C16_ZoomRange ==
    /\ camera.minZoom = 1 /\ camera.maxZoom = 100
    /\ camera.zoom >= camera.minZoom
    /\ camera.zoom <= camera.maxZoom

\* Witness of C16: a zoomCamera call at the top of the range asked for more
\* and left the zoom at maxZoom.
C16_Witness ==
    /\ FreshQuery("zoom")
    /\ isFinite(query.deltaX) /\ query.deltaX.value > 0
    /\ query.before.zoom + query.deltaX.value > camera.maxZoom
    /\ updateMatrixSucceeds(query.before)
    /\ camera.zoom = camera.maxZoom

(***************************************************************************)
(* A camera whose position was overwritten with NaN (position is a plain   *)
(* field of the object), and the reads of its view.                        *)
(***************************************************************************)

\* camera.position = {x: NaN, y: NaN}, written from outside the class.
ForcePosition ==
    /\ ~camera.positionIsNaN
    /\ CameraCall([camera EXCEPT !.positionIsNaN = TRUE], [kind |-> "force", before |-> camera])

\* camera.getViewBounds()
ViewBoundsCall ==
    /\ query' = [kind |-> "bounds", before |-> camera, viewBounds |-> getViewBounds(camera)]
    /\ frame' = << >>
    /\ UNCHANGED <<quadTree, inserted, circleGrid, camera, tilesByLevel, needsRebuild, calls, app>>

NextForce ==
    ForcePosition \/ ViewBoundsCall \/ ZoomCameraCall \/ Reset \/ UpdateMatrix \/ ResizeCanvas

SpecForce == InitCam /\ [][NextForce]_vars

\* C21: a getViewBounds call on a camera whose position holds a non-finite
\* coordinate returns the default rectangle (-500, 500, 500, -500), and no
\* getViewBounds call returns a rectangle with a non-finite edge.
C21_DefaultView ==
    FreshQuery("bounds")
        => /\ query.before.positionIsNaN => query.viewBounds = DefaultView
           /\ query.viewBounds.den # 0

(***************************************************************************)
(* The generator on its own: new CircleGrid(radius), generate() and the    *)
(* two setters that regenerate.                                            *)
(***************************************************************************)

\* Inputs of the generator specification: radii, invalid ones included, and
\* block sides of 1, 1.5 and 2.
GridRadii == {-1, 0, 1, 2, 3}
GridBlockSizes == {Unit, Unit + Unit \div 2, 2 * Unit}
GridRates == {0, InitialBadDataRate, RateOne}

InitGrid ==
    /\ \E radius \in GridRadii : circleGrid = NewCircleGrid(radius)
    /\ quadTree = NewQuadTree(QTWidth, QTWidth, QTMaxDepth, QTMaxItems)
    /\ inserted = << >>
    /\ camera = NoCamera
    /\ tilesByLevel = << >>
    /\ needsRebuild = FALSE
    /\ query = NoQuery
    /\ frame = << >>
    /\ calls = 0
    /\ app = NoApp

\* One call on the grid: the grid after it; frame is the array generate()
\* returned.
GridCall(after, call) ==
    /\ circleGrid' = after
    /\ query' = call
    /\ frame' = after.blocks
    /\ UNCHANGED <<quadTree, inserted, camera, tilesByLevel, needsRebuild, calls, app>>

\* circleGrid.generate()
Generate ==
    \E bad \in BadChoices(Len(BlockCentres(circleGrid)), circleGrid.badDataRate, MaxBad) :
        GridCall(generate(circleGrid, bad), [kind |-> "generate", before |-> circleGrid])

\* circleGrid.setBlockSize(newSize) for newSize of at least one model unit
\* (Math.max(0.1, newSize) is then newSize)
GridSetBlockSize ==
    \E newSize \in GridBlockSizes :
        LET cg == [circleGrid EXCEPT !.blockSize = newSize]
        IN \E bad \in BadChoices(Len(BlockCentres(cg)), cg.badDataRate, MaxBad) :
              GridCall(generate(cg, bad), [kind |-> "setBlockSize", before |-> circleGrid])

\* circleGrid.setBadDataRate(rate)
GridSetBadDataRate ==
    \E rate \in GridRates :
        LET cg == [circleGrid EXCEPT !.badDataRate = Max(0, Min(RateOne, rate))]
        IN \E bad \in BadChoices(Len(BlockCentres(cg)), cg.badDataRate, MaxBad) :
              GridCall(generate(cg, bad), [kind |-> "setBadDataRate", before |-> circleGrid])

NextGrid == Generate \/ GridSetBlockSize \/ GridSetBadDataRate

SpecGrid == InitGrid /\ [][NextGrid]_vars

\* The centre of cell (i, j) of the grid generate() iterates, i and j from 0.
LoopCellCentre(cg, i, j) ==
    [x |-> ((2 * i - GridSize(cg) + 1) * cg.blockSize) \div 2,
     y |-> ((2 * j - GridSize(cg) + 1) * cg.blockSize) \div 2]

\* C25: every tile generate() returned has its centre at distance at most R
\* from the origin, and every cell of the iterated grid whose centre is
\* within R is among the tiles.
C25_DiskContainment ==
    query.kind \in {"generate", "setBlockSize", "setBadDataRate"}
        => /\ \A k \in 1..Len(frame) :
                 frame[k].x * frame[k].x + frame[k].y * frame[k].y
                    <= (circleGrid.radius * Unit) * (circleGrid.radius * Unit)
           /\ \A i, j \in 0..(GridSize(circleGrid) - 1) :
                 LET c == LoopCellCentre(circleGrid, i, j)
                 IN c.x * c.x + c.y * c.y <= (circleGrid.radius * Unit) * (circleGrid.radius * Unit)
                       => \E k \in 1..Len(frame) : frame[k].x = c.x /\ frame[k].y = c.y

\* Witness of C25: generate() returned tiles and left out a cell of the
\* iterated grid, on a grid with an odd number of cells per row.
C25_Witness ==
    /\ FreshQuery("generate")
    /\ Len(frame) > 0
    /\ Len(frame) < GridSize(circleGrid) * GridSize(circleGrid)
    /\ GridSize(circleGrid) % 2 = 1

\* C26: the tiles of one generate() call all have the same side s, and the
\* centres of any two of them differ by whole multiples of s on both axes,
\* not both zero.
C26_Lattice ==
    query.kind \in {"generate", "setBlockSize", "setBadDataRate"}
        => /\ \A k \in 1..Len(frame) : frame[k].size = circleGrid.blockSize
           /\ \A a, b \in 1..Len(frame) :
                 a # b =>
                    /\ (frame[a].x - frame[b].x) % circleGrid.blockSize = 0
                    /\ (frame[a].y - frame[b].y) % circleGrid.blockSize = 0
                    /\ frame[a].x # frame[b].x \/ frame[a].y # frame[b].y

\* Witness of C26: tiles of side 1.5 on a grid with an odd number of cells
\* per row, two of them side by side.
C26_Witness ==
    /\ FreshQuery("generate")
    /\ circleGrid.blockSize = Unit + Unit \div 2
    /\ GridSize(circleGrid) % 2 = 1
    /\ \E a, b \in 1..Len(frame) :
          /\ frame[a].y = frame[b].y
          /\ frame[a].x - frame[b].x = circleGrid.blockSize

\* C27: a generator constructed with a radius R <= 0 behaves as one of
\* radius 1: generate() returns the tiles of the radius-1 disk.
C27_RadiusClamped ==
    (FreshQuery("generate") /\ circleGrid.radius <= 0)
        => LET one == [circleGrid EXCEPT !.radius = 1]
           IN /\ Len(frame) = Len(BlockCentres(one))
              /\ \A k \in 1..Len(frame) :
                    /\ frame[k].x = BlockCentres(one)[k].x
                    /\ frame[k].y = BlockCentres(one)[k].y

(***************************************************************************)
(* The application: CircleRenderer's startup, its frame loop, and the      *)
(* renderer across the loss and the restoration of its WebGL context.      *)
(* app is [phase, renderer, tileManager, listeners, rafPending,            *)
(* timerPending, context, lostEventPending, restoredEventPending, losses,  *)
(* lastFrameTime].                                                         *)
(***************************************************************************)

\* fallbackToCanvas2D(errorMessage): has2d says whether
\* canvas.getContext("2d") returns a context.
fallbackToCanvas2D(r, has2d) ==
    [r EXCEPT !.useWebGL = FALSE, !.gl = FALSE, !.ctx2d = has2d, !.isInitialized = has2d]

\* new Renderer(canvas): initialize() sets up WebGL when the browser hands
\* out a context and falls back to Canvas 2D otherwise.
NewRenderer(webgl) ==
    LET fields == [gl |-> FALSE, ctx2d |-> FALSE, isInitialized |-> FALSE,
                   useWebGL |-> TRUE, hasContextLost |-> FALSE]
    IN IF webgl
       THEN [fields EXCEPT !.gl = TRUE, !.isInitialized = TRUE]
       ELSE fallbackToCanvas2D(fields, TRUE)

\* reinitialize(): acquired says whether the context is obtained again and
\* its program and buffers are rebuilt.  The canvas holds a WebGL context,
\* so the fallback finds no 2D context on it.
reinitialize(r, acquired) ==
    IF acquired
    THEN [r EXCEPT !.gl = TRUE, !.isInitialized = TRUE, !.useWebGL = TRUE]
    ELSE fallbackToCanvas2D(r, FALSE)

\* render(tiles, camera): submitted says whether the tiles reached
\* renderWebGL or renderCanvas2D and were drawn.
render(r, tiles, cam, contextLost) ==
    IF ~r.isInitialized THEN [renderer |-> r, submitted |-> FALSE]
    ELSE IF r.hasContextLost /\ ~(r.gl /\ ~contextLost)
    THEN [renderer |-> r, submitted |-> FALSE]
    ELSE LET ready == IF r.hasContextLost
                      THEN reinitialize([r EXCEPT !.hasContextLost = FALSE], TRUE)
                      ELSE r
         IN IF ready.useWebGL /\ ready.gl
            THEN [renderer |-> ready,
                  submitted |-> ~contextLost /\ tiles # << >> /\ MatrixFinite(cam.matrix)]
            ELSE [renderer |-> ready, submitted |-> ready.ctx2d]

\* tileManager.getVisibleTiles() of a tile manager whose pyramid is built
\* (needsRebuild is false).
getVisibleTiles(qt, levels, cam) ==
    LET viewBounds == getViewBounds(cam)
        range == ViewRange(viewBounds)
        zoomBasedLevel == calculateLODLevelFromZoom(cam)
        visibleTiles == queryRange(qt, range)
        run == applyLODRun(levels, cam, visibleTiles, zoomBasedLevel)
    IN [threw |-> run.threw, result |-> IF run.threw THEN << >> ELSE run.result]

\* A variant of animate that leaves the loop when the context is lost.
animateStopsWhenLost(a, called, cam, contextLost, renderThrows) ==
    [app |-> [a EXCEPT !.lastFrameTime = 1 - @], camera |-> cam, tiles |-> << >>,
     query |-> [kind |-> "animate", path |-> "lost", contextLost |-> contextLost,
                tileManager |-> a.tileManager, selections |-> 0,
                result |-> << >>, submitted |-> FALSE]]

\* A variant of animate without the test of the context.
animateIgnoresLoss(a, called, cam, contextLost, renderThrows) ==
    LET selection == called
    IN [app |-> [a EXCEPT !.lastFrameTime = 1 - @, !.rafPending = @ + 1],
        camera |-> cam, tiles |-> selection.result,
        query |-> [kind |-> "animate", path |-> "normal", contextLost |-> contextLost,
                   tileManager |-> a.tileManager, selections |-> 1,
                   result |-> selection.result, submitted |-> selection.result # << >>]]

\* animate(): one frame.  called is what this.tileManager.getVisibleTiles()
\* does when the frame calls it, contextLost what gl.isContextLost() answers
\* during the frame, renderThrows whether renderer.render throws.  The
\* result holds the application and the camera after the frame, the tiles
\* drawn, and query, the record of the frame: its path, the number of
\* getVisibleTiles calls, their result, and whether the result was drawn.
animate(a, called, cam, contextLost, renderThrows) ==
    LET now == [a EXCEPT !.lastFrameTime = 1 - @]
        entry == [kind |-> "animate", path |-> "lost", contextLost |-> contextLost,
                  tileManager |-> a.tileManager, selections |-> 0,
                  result |-> << >>, submitted |-> FALSE]
    IN IF now.renderer.gl /\ contextLost
       THEN [app |-> [now EXCEPT !.rafPending = @ + 1], camera |-> cam, tiles |-> << >>,
             query |-> entry]
       ELSE LET selection == IF a.tileManager = "null"
                             THEN [threw |-> FALSE, result |-> << >>]
                             ELSE called
                selections == IF a.tileManager = "null" THEN 0 ELSE 1
            IN IF selection.threw
               THEN [app |-> [now EXCEPT !.timerPending = @ + 1], camera |-> cam,
                     tiles |-> << >>,
                     query |-> [entry EXCEPT !.path = "outer", !.selections = selections]]
               ELSE IF selection.result = << >>
               THEN [app |-> [now EXCEPT !.rafPending = @ + 1], camera |-> cam,
                     tiles |-> << >>,
                     query |-> [entry EXCEPT !.path = "empty", !.selections = selections]]
               ELSE IF renderThrows
               THEN [app |-> [now EXCEPT !.rafPending = @ + 1],
                     camera |-> IF now.renderer.gl /\ contextLost
                                THEN cam ELSE updateMatrix(cam).camera,
                     tiles |-> << >>,
                     query |-> [entry EXCEPT !.path = "renderError",
                                             !.selections = selections,
                                             !.result = selection.result]]
               ELSE LET drawn == render(now.renderer, selection.result, cam, contextLost)
                    IN [app |-> [now EXCEPT !.renderer = drawn.renderer,
                                            !.rafPending = @ + 1],
                        camera |-> cam,
                        tiles |-> IF drawn.submitted THEN selection.result ELSE << >>,
                        query |-> [entry EXCEPT !.path = "normal",
                                                !.selections = selections,
                                                !.result = selection.result,
                                                !.submitted = drawn.submitted]]

\* A variant of initCircleGrid that registers the listeners and starts the
\* loop without a tile manager.
initCircleGridWithoutTileManager(a) == [a EXCEPT !.listeners = TRUE]

\* initCircleGrid() up to the start of the loop: new TileManager(circleGrid,
\* camera), whose constructor builds the quadtree and the pyramid, and only
\* then setupEventListeners().
initCircleGrid(a) == [a EXCEPT !.tileManager = "built", !.listeners = TRUE]

\* Bounds and inputs of the application specification: the number of context
\* losses, the grid (main.js builds new CircleGrid(500); the model's grids
\* have radius 1 and 2), the canvas, and the wheel's zoom deltas in tenths.
MaxLosses == 1
AppRadii == {1, 2}
AppCanvases == {[width |-> 4, height |-> 3]}
WheelDeltas == {-1, 1}

\* new CircleRenderer(): the canvas is sized and delayedInit is on a timer;
\* no renderer, camera, grid or tile manager exists yet.
InitApp ==
    /\ quadTree = NewQuadTree(QTWidth, QTWidth, QTMaxDepth, QTMaxItems)
    /\ inserted = << >>
    /\ circleGrid = NoGrid
    /\ camera = NoCamera
    /\ tilesByLevel = << >>
    /\ needsRebuild = FALSE
    /\ query = NoQuery
    /\ frame = << >>
    /\ calls = 0
    /\ app = [phase |-> "constructed", renderer |-> NewRenderer(FALSE),
              tileManager |-> "null", listeners |-> FALSE,
              rafPending |-> 0, timerPending |-> 0, context |-> "none",
              lostEventPending |-> FALSE, restoredEventPending |-> FALSE,
              losses |-> 0, lastFrameTime |-> 0]

\* delayedInit(), the timer callback of the constructor: new Renderer, new
\* Camera, then initCircleGrid(): new CircleGrid, new TileManager, the
\* listeners, and the first animate(), all in one task.  outcome says how
\* the constructor's buildLODTiles ended.
DelayedInitWhen(outcomes, renderErrors) ==
    /\ app.phase = "constructed"
    /\ \E radius \in AppRadii, canvas \in AppCanvases, webgl \in BOOLEAN,
          outcome \in outcomes, renderThrows \in renderErrors :
          \E cg \in {generate(NewCircleGrid(radius), {})} :
          \E qt \in {InitialQuadTree(cg, cg.blocks)} :
          \E levels \in {IF outcome = "failed" THEN FallbackLevels ELSE buildLODTiles(cg)} :
          \E started \in {initCircleGrid(
                              [app EXCEPT !.phase = "running",
                                          !.renderer = NewRenderer(webgl),
                                          !.context = IF webgl THEN "ok" ELSE "none"])} :
          \E cam \in {NewCamera(canvas)} :
          \E called \in {getVisibleTiles(qt, levels, cam)} :
          \E run \in {animate(started, called, cam, FALSE, renderThrows)} :
             /\ circleGrid' = cg
             /\ inserted' = cg.blocks
             /\ quadTree' = qt
             /\ tilesByLevel' = levels
             /\ needsRebuild' = FALSE
             /\ camera' = run.camera
             /\ app' = run.app
             /\ query' = run.query
             /\ frame' = run.tiles
    /\ UNCHANGED calls

\* The requestAnimationFrame callback: animate().  selections holds what
\* getVisibleTiles() may do in this frame.
AnimateWhen(selections, renderErrors) ==
    /\ app.phase = "running"
    /\ app.rafPending > 0
    /\ \E renderThrows \in renderErrors :
       \E called \in selections :
       \E run \in {animate([app EXCEPT !.rafPending = @ - 1], called, camera,
                           app.context = "lost", renderThrows)} :
          /\ app' = run.app
          /\ camera' = run.camera
          /\ query' = run.query
          /\ frame' = run.tiles
    /\ UNCHANGED <<quadTree, inserted, circleGrid, tilesByLevel, needsRebuild, calls>>

\* The setTimeout callback of animate's outer handler: it requests the frame.
RetryTimer ==
    /\ app.timerPending > 0
    /\ app' = [app EXCEPT !.timerPending = @ - 1, !.rafPending = @ + 1]
    /\ query' = NoQuery
    /\ frame' = << >>
    /\ UNCHANGED <<quadTree, inserted, circleGrid, camera, tilesByLevel, needsRebuild, calls>>

\* The browser loses the WebGL context: gl.isContextLost() answers true at
\* once, the webglcontextlost event is queued.
LoseContext ==
    /\ app.phase = "running"
    /\ app.renderer.gl
    /\ app.context = "ok"
    /\ ~app.lostEventPending /\ ~app.restoredEventPending
    /\ app.losses < MaxLosses
    /\ app' = [app EXCEPT !.context = "lost", !.lostEventPending = TRUE, !.losses = @ + 1]
    /\ query' = NoQuery
    /\ frame' = << >>
    /\ UNCHANGED <<quadTree, inserted, circleGrid, camera, tilesByLevel, needsRebuild, calls>>

\* The "webglcontextlost" listener.
ContextLostEvent ==
    /\ app.lostEventPending
    /\ app' = [app EXCEPT !.lostEventPending = FALSE, !.renderer.hasContextLost = TRUE]
    /\ query' = NoQuery
    /\ frame' = << >>
    /\ UNCHANGED <<quadTree, inserted, circleGrid, camera, tilesByLevel, needsRebuild, calls>>

\* The browser restores the context once the loss event has been handled:
\* gl.isContextLost() answers false, the webglcontextrestored event is
\* queued.
RestoreContext ==
    /\ app.context = "lost"
    /\ ~app.lostEventPending
    /\ app' = [app EXCEPT !.context = "ok", !.restoredEventPending = TRUE]
    /\ query' = NoQuery
    /\ frame' = << >>
    /\ UNCHANGED <<quadTree, inserted, circleGrid, camera, tilesByLevel, needsRebuild, calls>>

\* The "webglcontextrestored" listener.
ContextRestoredEvent ==
    /\ app.restoredEventPending
    /\ app' = [app EXCEPT !.restoredEventPending = FALSE,
                          !.renderer = reinitialize([@ EXCEPT !.hasContextLost = FALSE], TRUE)]
    /\ query' = NoQuery
    /\ frame' = << >>
    /\ UNCHANGED <<quadTree, inserted, circleGrid, camera, tilesByLevel, needsRebuild, calls>>

\* The "wheel" listener: camera.zoomCamera(0.1) or camera.zoomCamera(-0.1).
Wheel ==
    /\ app.listeners
    /\ \E delta \in WheelDeltas : camera' = zoomCamera(camera, Finite(delta))
    /\ query' = NoQuery
    /\ frame' = << >>
    /\ UNCHANGED <<quadTree, inserted, circleGrid, tilesByLevel, needsRebuild, calls, app>>

\* The click listener of the reset button: camera.reset().
ResetView ==
    /\ app.listeners
    /\ camera' = reset(camera)
    /\ query' = NoQuery
    /\ frame' = << >>
    /\ UNCHANGED <<quadTree, inserted, circleGrid, tilesByLevel, needsRebuild, calls, app>>

\* The application when the pyramid is built and render does not throw.
DelayedInit == DelayedInitWhen({"built"}, {FALSE})
Animate == AnimateWhen({getVisibleTiles(quadTree, tilesByLevel, camera)}, {FALSE})

NextApp ==
    \/ DelayedInit \/ Animate
    \/ LoseContext \/ ContextLostEvent \/ RestoreContext \/ ContextRestoredEvent
    \/ Wheel \/ ResetView

SpecApp == InitApp /\ [][NextApp]_vars

\* C22: back-end loss. While the WebGL context is reported lost, a frame
\* calls getVisibleTiles not at all and draws nothing; in a frame that finds
\* the context present, and so in the first frame after it is restored,
\* getVisibleTiles is called exactly once and the tiles it returns are drawn.
C22_LossSuspends ==
    query.kind = "animate" =>
        /\ query.contextLost =>
              (query.selections = 0 /\ ~query.submitted /\ frame = << >>)
        /\ ~query.contextLost =>
              /\ query.selections = 1
              /\ query.result # << >> => (query.submitted /\ frame = query.result)

\* Witness of C22: a frame after the context was lost and restored drew its
\* selection.
C22_Witness ==
    /\ query.kind = "animate"
    /\ app.losses >= 1
    /\ app.context = "ok"
    /\ ~query.contextLost
    /\ query.selections = 1
    /\ query.submitted
    /\ frame # << >>

DelayedInitMayFail == DelayedInitWhen({"built", "failed"}, BOOLEAN)
AnimateMayFail == AnimateWhen({getVisibleTiles(quadTree, tilesByLevel, camera)}, BOOLEAN)

NextAppFail ==
    \/ DelayedInitMayFail \/ AnimateMayFail \/ RetryTimer
    \/ LoseContext \/ ContextLostEvent \/ RestoreContext \/ ContextRestoredEvent
    \/ Wheel \/ ResetView

SpecAppFail == InitApp /\ [][NextAppFail]_vars

(***************************************************************************)
(* The frame loop by itself: in every frame getVisibleTiles may throw,     *)
(* return no tile, or return tiles, whatever the tile manager holds.       *)
(***************************************************************************)

SelectionOutcomes ==
    {[threw |-> TRUE, result |-> << >>],
     [threw |-> FALSE, result |-> << >>],
     [threw |-> FALSE, result |-> circleGrid.blocks]}

AnimateAnyOutcome == AnimateWhen(SelectionOutcomes, BOOLEAN)

NextLoop ==
    \/ DelayedInitMayFail \/ AnimateAnyOutcome \/ RetryTimer
    \/ LoseContext \/ ContextLostEvent \/ RestoreContext \/ ContextRestoredEvent

SpecLoop == InitApp /\ [][NextLoop]_vars

\* Once the loop runs, the browser runs every frame callback and every
\* retry timer callback that is pending.
SpecLoopFair ==
    /\ SpecLoop
    /\ WF_vars(AnimateAnyOutcome)
    /\ WF_vars(RetryTimer)

\* C30: frame loop liveness. Every invocation of animate schedules exactly
\* one next invocation on every path, so that once the loop runs exactly
\* one callback (frame request or retry timer) is pending at any time and
\* animate is invoked again and again.
C30_FrameLoop ==
    /\ [](app.phase = "running" => app.rafPending + app.timerPending = 1)
    /\ ((app.phase = "running" /\ app.lastFrameTime = 0) ~> app.lastFrameTime = 1)
    /\ ((app.phase = "running" /\ app.lastFrameTime = 1) ~> app.lastFrameTime = 0)

\* Witness of C30: a frame ended in the outer handler and its retry timer
\* is the one pending callback.
C30_Witness ==
    /\ query.kind = "animate"
    /\ query.path = "outer"
    /\ app.timerPending = 1
    /\ app.rafPending = 0

====
